---- MODULE Spec2Model ----
(***************************************************************************)
(* Output storage engine of hasty-ruby-coypu: store_output_data and the    *)
(* context managers it is built from (DetainSigint, ExceptionOccuredWhile, *)
(* ProcessSigintAsInterruption, Sqlite3TransactionCustom), run repeatedly  *)
(* on one destination path, with SIGINTs and statement failures arriving   *)
(* at any step.                                                            *)
(*                                                                         *)
(* A str is the sequence of its code points, a bytes value the sequence of *)
(* its bytes.  The destination file is its last committed content; the     *)
(* connection has its own uncommitted view of it.                          *)
(***************************************************************************)
EXTENDS Integers, Sequences, FiniteSets, TLC

\* ------------------------------------------------------------------ bounds
MaxRuns == 2
MaxSigints == 1
MaxFaults == 1
MaxRecLen == 2
MaxDepth == 2
MaxContexts == 3
MaxDetainSigints == 3
MaxChildren == 3
MaxEntries == 2

\* --------------------------------------------------------------- constants
OUTPUT_DB_ID_STR == <<104, 97, 115, 116, 121, 45, 114, 117, 98, 121, 45, 99, 111, 121, 112, 117>>
OUTPUT_DB_V_INT == 1
DEFAULT_CATEGORY_UUID == <<157, 160, 21, 175, 46, 68, 48, 122, 165, 150, 117, 76, 87, 163, 154, 64>>
DEFAULT_CATEGORY_TEXT_ID == <<100, 101, 102, 97, 117, 108, 116>>
DEFAULT_CATEGORY_DISPLAYNAME == <<68, 101, 102, 97, 117, 108, 116>>

LOCAL_TO_EXTERNAL_STAGES ==
  [ db_connecting    |-> "output_db_connecting",
    db_verifying     |-> "output_db_verifying",
    db_building      |-> "output_db_building",
    db_filling       |-> "output_db_filling",
    db_disconnecting |-> "output_db_disconnecting" ]

\* the three keys of the "extra" table
OUTPUT_DB_EXTRA_SPEC == {"db_id", "db_v", "latest_output_timestamp"}

\* ----------------------------------------------------------- blob coders
IsSurrogate(cp) == cp >= 55296 /\ cp <= 57343

\* str.encode('utf-8') of one code point (up to three bytes are needed here)
Utf8Char(cp) ==
  IF cp < 128 THEN <<cp>>
  ELSE IF cp < 2048 THEN <<192 + (cp \div 64), 128 + (cp % 64)>>
  ELSE <<224 + (cp \div 4096), 128 + ((cp \div 64) % 64), 128 + (cp % 64)>>

RECURSIVE sqlite3_blob_encode_str(_)
sqlite3_blob_encode_str(s) ==
  IF s = <<>> THEN <<>> ELSE Utf8Char(Head(s)) \o sqlite3_blob_encode_str(Tail(s))

\* a str with a lone surrogate cannot be encoded (UnicodeEncodeError)
Encodable(s) == \A i \in 1..Len(s) : ~IsSurrogate(s[i])

\* bytes.decode('utf-8'); <<-1>> stands for a UnicodeDecodeError
RECURSIVE sqlite3_blob_decode_str(_)
sqlite3_blob_decode_str(b) ==
  IF b = <<>> THEN <<>>
  ELSE IF b[1] < 128 THEN <<b[1]>> \o sqlite3_blob_decode_str(Tail(b))
  ELSE IF b[1] >= 192 /\ b[1] < 224 /\ Len(b) >= 2
    THEN <<(b[1] - 192) * 64 + (b[2] - 128)>> \o sqlite3_blob_decode_str(SubSeq(b, 3, Len(b)))
  ELSE IF b[1] >= 224 /\ b[1] < 240 /\ Len(b) >= 3
    THEN <<(b[1] - 224) * 4096 + (b[2] - 128) * 64 + (b[3] - 128)>>
            \o sqlite3_blob_decode_str(SubSeq(b, 4, Len(b)))
  ELSE <<-1>>

\* int.to_bytes(4, 'little', signed=False); an OverflowError becomes an AssertionError
IntEncodable(i) == i >= 0 /\ (i \div 65536) < 65536
sqlite3_blob_encode_int(i) ==
  <<i % 256, (i \div 256) % 256, (i \div 65536) % 256, (i \div 16777216) % 256>>

\* int.from_bytes(b, 'little', signed=False), after assert len(b) == 4
sqlite3_blob_decode_int(b) == b[1] + 256 * b[2] + 65536 * b[3] + 16777216 * b[4]

\* uuid.UUID.bytes: a UUID is kept as its 16 bytes
sqlite3_blob_encode_uuid(u) == u

\* uuid.uuid3(UUID_ENTRY_BASE, random.randbytes(16).hex()): the random draw made for
\* entry e in invocation r; two draws are never equal
EntryUuid(r, e) == <<r, e>>

\* ------------------------------------------------------- database content
\* content of a database: its tables and their rows
EmptyDb == [kind |-> "db", tables |-> {}, extra |-> {}, collections |-> {}, entries |-> {}]
NoFile == [kind |-> "none", tables |-> {}, extra |-> {}, collections |-> {}, entries |-> {}]
Garbage == [kind |-> "garbage", tables |-> {}, extra |-> {}, collections |-> {}, entries |-> {}]

\* the three CREATE TABLE statements of the creation sequence, in order
DB_CREATION_SEQUENCE_SQL == <<"extra", "collections", "entries">>

\* SELECT "value" FROM "extra" WHERE "name"=? : the set of values found (empty: None)
output_db_extra_get(d, internal_id) == {r.value : r \in {x \in d.extra : x.name = internal_id}}

\* INSERT OR REPLACE INTO "extra" ("name", "value") VALUES (?, ?)
output_db_extra_put(d, internal_id, val) ==
  [d EXCEPT !.extra = {x \in d.extra : x.name # internal_id}
                         \cup {[name |-> internal_id, value |-> val]}]

\* INSERT OR IGNORE INTO "collections" VALUES (?, ?, ?), collection_uuid being UNIQUE
InsertOrIgnoreCollectionSkipped(d, row) == d
InsertOrIgnoreCollection(d, row) ==
  IF \E c \in d.collections : c.collection_uuid = row.collection_uuid
    THEN d
    ELSE [d EXCEPT !.collections = @ \cup {row}]

DefaultCollectionRow ==
  [collection_uuid |-> sqlite3_blob_encode_uuid(DEFAULT_CATEGORY_UUID),
   collection_text_id |-> DEFAULT_CATEGORY_TEXT_ID,
   collection_displayname |-> DEFAULT_CATEGORY_DISPLAYNAME]

\* SELECT EXISTS(SELECT 1 FROM "entries" WHERE ("full_url"=? AND "title"=?))
EntryExistsUrlOnly(d, entry) == \E e \in d.entries : e.full_url = entry[1]
EntryExists(d, entry) ==
  \E e \in d.entries : e.full_url = entry[1] /\ e.title = entry[2]

\* INSERT INTO "entries" VALUES (?, ?, ?, ?)
InsertEntryReplacingUrl(d, r, entry) ==
  [d EXCEPT !.entries = {x \in @ : x.full_url # entry[1]} \cup
     {[entry_uuid |-> sqlite3_blob_encode_uuid(EntryUuid(r, entry)),
       collection_uuid |-> sqlite3_blob_encode_uuid(DEFAULT_CATEGORY_UUID),
       full_url |-> entry[1], title |-> entry[2]]}]
InsertEntry(d, r, entry) ==
  [d EXCEPT !.entries = @ \cup
     {[entry_uuid |-> sqlite3_blob_encode_uuid(EntryUuid(r, entry)),
       collection_uuid |-> sqlite3_blob_encode_uuid(DEFAULT_CATEGORY_UUID),
       full_url |-> entry[1], title |-> entry[2]]}]

\* the (full_url, title) pairs of the rows of entries
PairsOf(d) == {<<e.full_url, e.title>> : e \in d.entries}

\* ------------------------------------------------------------- the inputs
\* (url, title) pairs a loader can deliver; the last one carries a lone surrogate
GoodPairs == { <<<<97>>, <<65>>>>, <<<<97>>, <<66>>>>, <<<<98>>, <<65>>>> }
BadPair == <<<<55296>>, <<88>>>>
AllPairs == GoodPairs \cup {BadPair}
Records ==
  {r \in SUBSET GoodPairs : Cardinality(r) >= 1 /\ Cardinality(r) <= MaxRecLen}
    \cup {{<<<<97>>, <<65>>>>, BadPair}}

\* a file found at the destination path that this program did not write
OtherId == <<111, 116, 104, 101, 114>>
ForeignFiles ==
  { Garbage,
    EmptyDb,
    [EmptyDb EXCEPT !.tables = {"extra"}],
    [EmptyDb EXCEPT !.tables = {"extra"},
       !.extra = {[name |-> "db_id", value |-> sqlite3_blob_encode_str(OtherId)],
                  [name |-> "db_v", value |-> sqlite3_blob_encode_int(OUTPUT_DB_V_INT)]}],
    [EmptyDb EXCEPT !.tables = {"extra"},
       !.extra = {[name |-> "db_id", value |-> sqlite3_blob_encode_str(OUTPUT_DB_ID_STR)]}],
    [EmptyDb EXCEPT !.tables = {"extra"},
       !.extra = {[name |-> "db_id", value |-> sqlite3_blob_encode_str(OUTPUT_DB_ID_STR)],
                  [name |-> "db_v", value |-> sqlite3_blob_encode_int(OUTPUT_DB_V_INT + 1)]}],
    [EmptyDb EXCEPT !.tables = {"extra", "collections", "entries"},
       !.extra = {[name |-> "db_id", value |-> sqlite3_blob_encode_str(OUTPUT_DB_ID_STR)],
                  [name |-> "db_v", value |-> sqlite3_blob_encode_int(OUTPUT_DB_V_INT + 1)]}] }

\* ------------------------------------------------------------------ state
VARIABLES
  file,         \* committed content of the file at the destination path
  runs,         \* invocations of store_output_data started so far
  sigints,      \* SIGINTs delivered so far
  faults,       \* statement failures injected so far
  pc,           \* position in store_output_data
  ctx,          \* stack of the context managers entered and not yet left
  exc,          \* exception in flight, or the one that reached the caller
  handler,      \* the process's SIGINT handler
  tries,        \* 0, or the number of the prompt the custom handler is waiting at
  db_con,       \* the sqlite3 connection and its uncommitted view of the file
  output_data,  \* the canonical record being stored
  db_created,   \* local db_created
  todo,         \* entries the for loop has not reached yet
  entry,        \* loop variable entry
  hist,         \* history of the current invocation
  det,          \* a program of nested DetainSigint contexts and the SIGINTs it receives
  bk,           \* a call of the Bookmark-Tree load_input_data
  tol,          \* a call of the Session-Log load_input_data
  mn            \* a call of main

vars == <<file, runs, sigints, faults, pc, ctx, exc, handler, tries, db_con,
          output_data, db_created, todo, entry, hist, det, bk, tol, mn>>

\* the variables of store_output_data, and those of the other programs
store == <<file, runs, sigints, faults, pc, ctx, exc, handler, tries, db_con,
           output_data, db_created, todo, entry, hist>>
aside == <<det, bk, tol, mn>>

\* nothing of the other programs is running
NoDetain == [on |-> FALSE]
NoLoad == [on |-> FALSE]
NoMain == [on |-> FALSE]

Terminal == {"done", "raised", "killed"}

NoExc == [type |-> "none", occured_while |-> "none", failed_stage |-> "none"]
Exc(t) == [type |-> t, occured_while |-> "none", failed_stage |-> "none"]

Unbound ==
  [state |-> "unbound", work |-> NoFile, txn |-> FALSE, tsp |-> FALSE, sps |-> <<>>, fk |-> FALSE]

\* context manager frames
DetainFrame(prev) == [k |-> "detain", prev |-> prev, occ |-> FALSE, text |-> ""]
EowFrame(text) == [k |-> "eow", prev |-> "", occ |-> FALSE, text |-> text]
SpFrame(name) == [k |-> "sp", prev |-> "", occ |-> FALSE, text |-> name]
PsiFrameKeepsOwnHandler(prev) == [k |-> "psi", prev |-> "custom", occ |-> FALSE, text |-> ""]
PsiFrame(prev) == [k |-> "psi", prev |-> prev, occ |-> FALSE, text |-> ""]

\* the stage in progress: the text of the innermost ExceptionOccuredWhile
StageOf(c) ==
  LET S == {i \in 1..Len(c) : c[i].k = "eow"}
  IN IF S = {} THEN "none" ELSE c[CHOOSE i \in S : \A j \in S : j <= i].text
CurStage == StageOf(ctx)

\* _detain_handler: self._sigint_occured = True, on the instance that installed it
DetainHandler(c) ==
  LET S == {i \in 1..Len(c) : c[i].k = "detain"}
  IN IF S = {} THEN c
     ELSE [c EXCEPT ![CHOOSE i \in S : \A j \in S : j <= i].occ = TRUE]

\* One SIGINT reaching the interpreter while s.handler is installed;
\* s = [handler, tries, exc, pc, ctx].  With SIG_DFL the process is terminated:
\* no context manager is left, no prompt is waiting.
RaiseSignal(s) ==
  CASE s.handler = "default_int_handler" ->
         [s EXCEPT !.exc = Exc("KeyboardInterrupt"),
                   !.pc = IF s.pc = "start" THEN "raised" ELSE "unwind"]
    [] s.handler = "detain" -> [s EXCEPT !.ctx = DetainHandler(s.ctx)]
    [] s.handler = "custom" -> [s EXCEPT !.handler = "SIG_DFL", !.tries = 1]
    [] s.handler = "SIG_DFL" -> [s EXCEPT !.pc = "killed", !.ctx = <<>>, !.tries = 0]
    [] OTHER -> s

SigState == [handler |-> handler, tries |-> tries, exc |-> exc, pc |-> pc, ctx |-> ctx]
SetSigState(s) ==
  /\ handler' = s.handler
  /\ tries' = s.tries
  /\ exc' = s.exc
  /\ pc' = s.pc
  /\ ctx' = s.ctx

NewHist(f, repeat) ==
  [pre |-> f, preFill |-> f, stages |-> <<>>, completed |-> <<>>, failedIn |-> "none",
   sigIn |-> {}, answered |-> "none", repeat |-> repeat, fresh |-> FALSE]

\* datetime.now() of the load that precedes the k-th invocation, in seconds
Clock(k) == 300 + k

Init ==
  /\ file \in {NoFile} \cup ForeignFiles
  /\ runs = 1
  /\ sigints = 0
  /\ faults = 0
  /\ pc = "start"
  /\ ctx = <<>>
  /\ exc = NoExc
  /\ handler = "default_int_handler"
  /\ tries = 0
  /\ db_con = Unbound
  /\ \E r \in Records : output_data = [entries |-> r, output_timestamp |-> Clock(1)]
  /\ db_created = FALSE
  /\ todo = {}
  /\ entry = <<>>
  /\ hist = [NewHist(file, FALSE) EXCEPT !.fresh = file.kind = "none"]
  /\ det = NoDetain
  /\ bk = NoLoad
  /\ tol = NoLoad
  /\ mn = NoMain

\* ------------------------------------------------------- sqlite3 connection
\* sqlite3.connect('file:...?mode=rw', uri=True): nothing is read yet
Connect(f) ==
  [state |-> "open", work |-> f, txn |-> FALSE, tsp |-> FALSE, sps |-> <<>>, fk |-> FALSE]

\* SAVEPOINT name: outside a transaction it opens one, which its RELEASE commits
Savepoint(con, name) ==
  [con EXCEPT !.txn = TRUE, !.tsp = IF con.txn THEN con.tsp ELSE TRUE, !.sps = Append(@, name)]

HasSavepoint(con, name) == \E i \in 1..Len(con.sps) : con.sps[i] = name

\* RELEASE name: removes the savepoint and those after it
Release(con, name) ==
  LET i == CHOOSE k \in 1..Len(con.sps) :
             con.sps[k] = name /\ \A j \in 1..Len(con.sps) : con.sps[j] = name => j <= k
      rest == SubSeq(con.sps, 1, i - 1)
  IN IF rest = <<>> /\ con.tsp
       THEN [con EXCEPT !.sps = <<>>, !.txn = FALSE, !.tsp = FALSE]
       ELSE [con EXCEPT !.sps = rest]

\* the file after RELEASE name: a RELEASE that ends the transaction commits the view
ReleasedFile(con, name, f) ==
  IF Release(con, name).txn THEN f ELSE con.work

\* a data-modifying statement; the sqlite3 module begins a transaction if none is open
Dml(con, d) == [con EXCEPT !.work = d, !.txn = TRUE]

\* Connection.commit()
Commit(con) == [con EXCEPT !.txn = FALSE, !.tsp = FALSE, !.sps = <<>>]

\* Connection.close(): an open transaction is rolled back
Close(con, f) ==
  [con EXCEPT !.state = "closed", !.work = f, !.txn = FALSE, !.tsp = FALSE, !.sps = <<>>]

\* error of a statement that touches table t, "ok" if there is none
TableError(d, t) ==
  IF d.kind = "garbage" THEN "DatabaseError"
  ELSE IF t \notin d.tables THEN "OperationalError"
  ELSE "ok"

\* verify_output_database: the exception it ends with, "ok" if it returns
verify_output_database_unchecked(d) ==
  IF TableError(d, "extra") # "ok" THEN TableError(d, "extra")
  ELSE IF output_db_extra_get(d, "db_id") = {} THEN "AttributeError"
  ELSE IF output_db_extra_get(d, "db_v") = {} THEN "TypeError"
  ELSE "ok"
verify_output_database(d) ==
  IF TableError(d, "extra") # "ok" THEN TableError(d, "extra")
  ELSE IF output_db_extra_get(d, "db_id") = {} THEN "AttributeError"
  ELSE IF \E b \in output_db_extra_get(d, "db_id") :
            sqlite3_blob_decode_str(b) # OUTPUT_DB_ID_STR THEN "AssertionError"
  ELSE IF output_db_extra_get(d, "db_v") = {} THEN "TypeError"
  ELSE IF \E b \in output_db_extra_get(d, "db_v") : Len(b) # 4 THEN "AssertionError"
  ELSE IF \E b \in output_db_extra_get(d, "db_v") :
            sqlite3_blob_decode_int(b) # OUTPUT_DB_V_INT THEN "AssertionError"
  ELSE "ok"

\* ------------------------------------------------------------ control flow
\* the with statements: the context managers each one enters, and what follows
Item(k, text) == [k |-> k, text |-> text]
Withs ==
  [ c_with    |-> [items |-> <<Item("detain", ""), Item("eow", "db_connecting")>>,
                   next |-> "c_create"],
    v_with    |-> [items |-> <<Item("detain", ""), Item("eow", "db_verifying"),
                               Item("sp", "db_verifying")>>, next |-> "v_body"],
    b_with    |-> [items |-> <<Item("detain", ""), Item("eow", "db_building"),
                               Item("sp", "db_building")>>, next |-> "b_fk"],
    f_with    |-> [items |-> <<Item("eow", "db_filling"), Item("sp", "writing_new_data")>>,
                   next |-> "f_ts_with"],
    f_ts_with |-> [items |-> <<Item("detain", "")>>, next |-> "f_ts"],
    f_co_with |-> [items |-> <<Item("detain", "")>>, next |-> "f_co"],
    f_psi     |-> [items |-> <<Item("psi", "")>>, next |-> "f_loop"],
    d_with    |-> [items |-> <<Item("detain", ""), Item("eow", "db_disconnecting")>>,
                   next |-> "d_commit"] ]

\* the ends of the with blocks: one context manager is left at each
Succ ==
  [ c_x1 |-> "c_x2", c_x2 |-> "branch",
    v_x1 |-> "v_x2", v_x2 |-> "v_x3", v_x3 |-> "f_with",
    b_x1 |-> "b_x2", b_x2 |-> "b_x3", b_x3 |-> "f_with",
    f_ts_x |-> "f_co_with", f_co_x |-> "f_psi", f_e_x |-> "f_loop",
    f_x1 |-> "f_x2", f_x2 |-> "f_x3", f_x3 |-> "d_with",
    d_x1 |-> "d_x2", d_x2 |-> "ret" ]

\* the statements of build_output_database after the savepoint, in order
BuildNext ==
  [ b_fk |-> "b_sd", b_sd |-> "b_extra", b_extra |-> "b_coll", b_coll |-> "b_ent",
    b_ent |-> "b_id", b_id |-> "b_v", b_v |-> "b_x1" ]

\* entering context managers: DetainSigint and ProcessSigintAsInterruption install
\* their handler and keep the previous one
DetainSigint_enter_keep(h) == h
DetainSigint_enter(h) == "detain"

RECURSIVE Push(_, _, _)
Push(c, h, items) ==
  IF items = <<>> THEN [ctx |-> c, handler |-> h]
  ELSE LET it == Head(items)
       IN CASE it.k = "detain" ->
                 Push(Append(c, DetainFrame(h)), DetainSigint_enter(h), Tail(items))
            [] it.k = "psi" -> Push(Append(c, PsiFrame(h)), "custom", Tail(items))
            [] it.k = "eow" -> Push(Append(c, EowFrame(it.text)), h, Tail(items))
            [] OTHER -> Push(Append(c, SpFrame(it.text)), h, Tail(items))

Running == pc \notin Terminal /\ tries = 0

\* an exception of type t is raised while stage is in progress
RaiseIn(t, stage) ==
  /\ exc' = Exc(t)
  /\ pc' = "unwind"
  /\ hist' = [hist EXCEPT !.failedIn = IF @ = "none" THEN stage ELSE @]

StmtFrame == <<file, ctx, handler, tries, db_con, db_created, todo, entry>>

\* a statement: it ends with err (raised when not "ok"), or the engine fails it
Stmt(err, ok) ==
  /\ UNCHANGED <<runs, sigints, output_data>>
  /\ \/ /\ faults' = faults
        /\ IF err = "ok" THEN ok ELSE RaiseIn(err, CurStage) /\ UNCHANGED StmtFrame
     \/ /\ faults < MaxFaults
        /\ faults' = faults + 1
        /\ RaiseIn("OperationalError", CurStage)
        /\ UNCHANGED StmtFrame

\* ---------------------------------------------------------------- actions
\* lines 153-154: resolve the path, db_created = not is_file()
Start ==
  /\ pc = "start"
  /\ Running
  /\ db_created' = (file.kind = "none")
  /\ todo' = output_data.entries
  /\ pc' = "c_with"
  /\ UNCHANGED <<file, runs, sigints, faults, ctx, exc, handler, tries, db_con,
                 output_data, entry, hist>>
  /\ UNCHANGED aside

\* a with statement is entered; Sqlite3TransactionCustom.__enter__ executes SAVEPOINT
Enter ==
  /\ pc \in DOMAIN Withs
  /\ Running
  /\ LET w == Withs[pc]
         n == Len(w.items)
         hasSp == w.items[n].k = "sp"
         all == Push(ctx, handler, w.items)
         upto == Push(ctx, handler, SubSeq(w.items, 1, n - 1))
         entered == {w.items[i].text : i \in {j \in 1..n : w.items[j].k = "eow"}}
         h1 == [hist EXCEPT
                  !.stages = IF entered = {} THEN @ ELSE Append(@, CHOOSE t \in entered : TRUE),
                  !.preFill = IF pc = "f_with" THEN file ELSE @]
     IN \/ /\ ctx' = all.ctx
           /\ handler' = all.handler
           /\ db_con' = IF hasSp THEN Savepoint(db_con, w.items[n].text) ELSE db_con
           /\ hist' = h1
           /\ pc' = w.next
           /\ UNCHANGED <<exc, faults>>
        \/ /\ hasSp
           /\ faults < MaxFaults
           /\ faults' = faults + 1
           /\ ctx' = upto.ctx
           /\ handler' = upto.handler
           /\ exc' = Exc("OperationalError")
           /\ pc' = "unwind"
           /\ hist' = [h1 EXCEPT !.failedIn = IF @ = "none" THEN StageOf(upto.ctx) ELSE @]
           /\ UNCHANGED db_con
  /\ UNCHANGED <<file, runs, sigints, tries, output_data, db_created, todo, entry>>
  /\ UNCHANGED aside

\* lines 165-168: a file that does not exist is created empty
ConnectCreate ==
  /\ pc = "c_create"
  /\ Running
  /\ IF db_created
       THEN Stmt("ok",
                 /\ file' = IF file.kind = "none" THEN EmptyDb ELSE file
                 /\ pc' = "c_open"
                 /\ UNCHANGED <<ctx, handler, tries, db_con, db_created, todo,
                                entry, exc, hist>>)
       ELSE /\ pc' = "c_open"
            /\ UNCHANGED <<file, runs, sigints, faults, ctx, exc, handler, tries,
                           db_con, output_data, db_created, todo, entry, hist>>
  /\ UNCHANGED aside

\* lines 169-170: db_con = sqlite3.connect(..., mode=rw)
ConnectOpen ==
  /\ pc = "c_open"
  /\ Running
  /\ Stmt(IF file.kind = "none" THEN "OperationalError" ELSE "ok",
          /\ db_con' = Connect(file)
          /\ pc' = "c_x1"
          /\ UNCHANGED <<file, ctx, handler, tries, db_created, todo, entry,
                         exc, hist>>)
  /\ UNCHANGED aside

\* lines 171-178: verifying when the file was there, building when it was not
StageAfterConnectingAlwaysBuild(created) == "b_with"
StageAfterConnecting(created) == IF ~created THEN "v_with" ELSE "b_with"

\* line 171: if not db_created
Branch ==
  /\ pc = "branch"
  /\ Running
  /\ pc' = StageAfterConnecting(db_created)
  /\ UNCHANGED <<file, runs, sigints, faults, ctx, exc, handler, tries, db_con,
                 output_data, db_created, todo, entry, hist>>
  /\ UNCHANGED aside

\* line 174: verify_output_database(db_con)
Verify ==
  /\ pc = "v_body"
  /\ Running
  /\ Stmt(verify_output_database(db_con.work),
          /\ pc' = "v_x1"
          /\ UNCHANGED <<file, ctx, handler, tries, db_con, db_created, todo,
                         entry, exc, hist>>)
  /\ UNCHANGED aside

BuildEffectWithoutVersion(p, con) ==
  CASE p = "b_fk" -> [con EXCEPT !.fk = IF con.txn THEN @ ELSE TRUE]
    [] p = "b_sd" -> con
    [] p = "b_extra" -> [con EXCEPT !.work.tables = @ \cup {DB_CREATION_SEQUENCE_SQL[1]}]
    [] p = "b_coll" -> [con EXCEPT !.work.tables = @ \cup {DB_CREATION_SEQUENCE_SQL[2]}]
    [] p = "b_ent" -> [con EXCEPT !.work.tables = @ \cup {DB_CREATION_SEQUENCE_SQL[3]}]
    [] p = "b_id" -> Dml(con, output_db_extra_put(con.work, "db_id",
                                  sqlite3_blob_encode_str(OUTPUT_DB_ID_STR)))
    [] OTHER -> con

\* the connection after one statement of build_output_database
BuildEffect(p, con) ==
  CASE p = "b_fk" -> [con EXCEPT !.fk = IF con.txn THEN @ ELSE TRUE]
    [] p = "b_sd" -> con
    [] p = "b_extra" -> [con EXCEPT !.work.tables = @ \cup {DB_CREATION_SEQUENCE_SQL[1]}]
    [] p = "b_coll" -> [con EXCEPT !.work.tables = @ \cup {DB_CREATION_SEQUENCE_SQL[2]}]
    [] p = "b_ent" -> [con EXCEPT !.work.tables = @ \cup {DB_CREATION_SEQUENCE_SQL[3]}]
    [] p = "b_id" -> Dml(con, output_db_extra_put(con.work, "db_id",
                                  sqlite3_blob_encode_str(OUTPUT_DB_ID_STR)))
    [] OTHER -> Dml(con, output_db_extra_put(con.work, "db_v",
                                  sqlite3_blob_encode_int(OUTPUT_DB_V_INT)))

BuildError(p, d) ==
  CASE p = "b_extra" -> IF DB_CREATION_SEQUENCE_SQL[1] \in d.tables
                          THEN "OperationalError" ELSE "ok"
    [] p = "b_coll" -> IF DB_CREATION_SEQUENCE_SQL[2] \in d.tables
                          THEN "OperationalError" ELSE "ok"
    [] p = "b_ent" -> IF DB_CREATION_SEQUENCE_SQL[3] \in d.tables
                          THEN "OperationalError" ELSE "ok"
    [] p \in {"b_id", "b_v"} -> TableError(d, "extra")
    [] OTHER -> "ok"

\* lines 141-149: one statement of build_output_database
Build ==
  /\ pc \in DOMAIN BuildNext
  /\ Running
  /\ Stmt(BuildError(pc, db_con.work),
          /\ db_con' = BuildEffect(pc, db_con)
          /\ pc' = BuildNext[pc]
          /\ UNCHANGED <<file, ctx, handler, tries, db_created, todo, entry,
                         exc, hist>>)
  /\ UNCHANGED aside

\* lines 182-184: the latest-write timestamp
FillTimestamp ==
  /\ pc = "f_ts"
  /\ Running
  /\ Stmt(IF ~IntEncodable(output_data.output_timestamp) THEN "AssertionError"
          ELSE TableError(db_con.work, "extra"),
          /\ db_con' = Dml(db_con, output_db_extra_put(db_con.work, "latest_output_timestamp",
                                     sqlite3_blob_encode_int(output_data.output_timestamp)))
          /\ pc' = "f_ts_x"
          /\ UNCHANGED <<file, ctx, handler, tries, db_created, todo, entry,
                         exc, hist>>)
  /\ UNCHANGED aside

\* lines 187-189: the default collection row
FillCollection ==
  /\ pc = "f_co"
  /\ Running
  /\ Stmt(TableError(db_con.work, "collections"),
          /\ db_con' = Dml(db_con, InsertOrIgnoreCollection(db_con.work, DefaultCollectionRow))
          /\ pc' = "f_co_x"
          /\ UNCHANGED <<file, ctx, handler, tries, db_created, todo, entry,
                         exc, hist>>)
  /\ UNCHANGED aside

\* lines 192-193: the next entry, in any order, and its DetainSigint; or the end of the loop
FillLoop ==
  /\ pc = "f_loop"
  /\ Running
  /\ IF todo = {}
       THEN /\ pc' = "f_x1"
            /\ UNCHANGED <<ctx, handler, todo, entry>>
       ELSE /\ \E e \in todo :
                 /\ entry' = e
                 /\ todo' = todo \ {e}
            /\ ctx' = Push(ctx, handler, <<Item("detain", "")>>).ctx
            /\ handler' = Push(ctx, handler, <<Item("detain", "")>>).handler
            /\ pc' = "f_e"
  /\ UNCHANGED <<file, runs, sigints, faults, exc, tries, db_con, output_data,
                 db_created, hist>>
  /\ UNCHANGED aside

\* binding the parameters of a statement encodes the strings
EntryError(d, e) ==
  IF ~Encodable(e[1]) \/ ~Encodable(e[2]) THEN "UnicodeEncodeError"
  ELSE TableError(d, "entries")

\* the view after lines 194-204 for one entry
StoreEntryAlways(d, r, e) == InsertEntry(d, r, e)
StoreEntry(d, r, e) == IF EntryExists(d, e) THEN d ELSE InsertEntry(d, r, e)

\* lines 194-204: SELECT EXISTS, and INSERT when the pair is not there
FillEntry ==
  /\ pc = "f_e"
  /\ Running
  /\ Stmt(IF EntryError(db_con.work, entry) # "ok" THEN EntryError(db_con.work, entry)
          ELSE IF /\ db_con.fk
                  /\ StoreEntry(db_con.work, runs, entry) # db_con.work
                  /\ DefaultCollectionRow \notin db_con.work.collections
            THEN "DatabaseError"
          ELSE "ok",
          /\ db_con' = IF StoreEntry(db_con.work, runs, entry) = db_con.work
                         THEN db_con
                         ELSE Dml(db_con, StoreEntry(db_con.work, runs, entry))
          /\ pc' = "f_e_x"
          /\ UNCHANGED <<file, ctx, handler, tries, db_created, todo, entry, exc, hist>>)
  /\ UNCHANGED aside

\* line 206: db_con.commit()
CommitStep ==
  /\ pc = "d_commit"
  /\ Running
  /\ Stmt("ok",
          /\ file' = IF db_con.txn THEN db_con.work ELSE file
          /\ db_con' = Commit(db_con)
          /\ pc' = "d_x0"
          /\ UNCHANGED <<ctx, handler, tries, db_created, todo, entry, exc, hist>>)
  /\ UNCHANGED aside

\* line 207: db_con.close()
CloseStep ==
  /\ pc = "d_x0"
  /\ Running
  /\ db_con' = Close(db_con, file)
  /\ pc' = "d_x1"
  /\ UNCHANGED <<file, runs, sigints, faults, ctx, exc, handler, tries,
                 output_data, db_created, todo, entry, hist>>
  /\ UNCHANGED aside

\* __exit__ of the innermost context manager, at the end of its block or while an
\* exception propagates
ExitCtx ==
  /\ pc \in DOMAIN Succ \/ (pc = "unwind" /\ ctx # <<>>)
  /\ Running
  /\ LET f == ctx[Len(ctx)]
         rest == SubSeq(ctx, 1, Len(ctx) - 1)
         nxt == IF pc = "unwind" THEN "unwind" ELSE Succ[pc]
         base == [handler |-> f.prev, tries |-> tries, exc |-> exc, pc |-> nxt, ctx |-> rest]
     IN CASE f.k = "eow" ->
               \* ExceptionOccuredWhile.__exit__: tag the exception
               /\ exc' = IF exc.type # "none" THEN [exc EXCEPT !.occured_while = f.text] ELSE exc
               /\ hist' = IF exc.type = "none"
                            THEN [hist EXCEPT !.completed = Append(@, f.text)] ELSE hist
               /\ ctx' = rest
               /\ pc' = nxt
               /\ UNCHANGED <<file, db_con, handler, tries, faults>>
          [] f.k = "sp" ->
               \* Sqlite3TransactionCustom.__exit__: RELEASE, whatever happened in the block
               \/ /\ faults' = faults
                  /\ ctx' = rest
                  /\ IF HasSavepoint(db_con, f.text)
                       THEN /\ file' = ReleasedFile(db_con, f.text, file)
                            /\ db_con' = Release(db_con, f.text)
                            /\ pc' = nxt
                            /\ UNCHANGED <<exc, hist>>
                       ELSE /\ RaiseIn("OperationalError", StageOf(rest))
                            /\ UNCHANGED <<file, db_con>>
                  /\ UNCHANGED <<handler, tries>>
               \/ /\ faults < MaxFaults
                  /\ faults' = faults + 1
                  /\ ctx' = rest
                  /\ RaiseIn("OperationalError", StageOf(rest))
                  /\ UNCHANGED <<file, db_con, handler, tries>>
          [] f.k = "detain" ->
               \* DetainSigint.__exit__: restore the handler, raise the detained SIGINT
               /\ SetSigState(IF f.occ THEN RaiseSignal(base) ELSE base)
               /\ UNCHANGED <<file, db_con, hist, faults>>
          [] OTHER ->
               \* ProcessSigintAsInterruption.__exit__: restore the handler
               /\ handler' = f.prev
               /\ ctx' = rest
               /\ pc' = nxt
               /\ UNCHANGED <<file, db_con, exc, hist, tries, faults>>
  /\ UNCHANGED <<runs, sigints, output_data, db_created, todo, entry>>
  /\ UNCHANGED aside

\* lines 208-219: the except clauses
Except(e) ==
  IF e.type \in {"OperationalError", "DatabaseError"}
    THEN IF e.occured_while = "none"
           THEN Exc("AttributeError")
           ELSE [type |-> "DatabaseAccessError", occured_while |-> "none",
                 failed_stage |-> LOCAL_TO_EXTERNAL_STAGES[e.occured_while]]
    ELSE e

\* lines 220-221: finally: db_con.close()
FinallyExc(e, con) == IF con.state = "unbound" THEN Exc("UnboundLocalError") ELSE e

\* the exception has left every with block: except clauses, finally, and out
ExceptFinally ==
  /\ pc = "unwind"
  /\ ctx = <<>>
  /\ Running
  /\ exc' = FinallyExc(Except(exc), db_con)
  /\ db_con' = IF db_con.state = "unbound" THEN db_con ELSE Close(db_con, file)
  /\ pc' = "raised"
  /\ todo' = {}
  /\ entry' = <<>>
  /\ UNCHANGED <<file, runs, sigints, faults, ctx, handler, tries, output_data,
                 db_created, hist>>
  /\ UNCHANGED aside

\* lines 220-222: finally: db_con.close(), return
Return ==
  /\ pc = "ret"
  /\ Running
  /\ db_con' = Close(db_con, file)
  /\ pc' = "done"
  /\ todo' = {}
  /\ entry' = <<>>
  /\ UNCHANGED <<file, runs, sigints, faults, ctx, exc, handler, tries,
                 output_data, db_created, hist>>
  /\ UNCHANGED aside

\* the locals and the connection once the process is gone: the engine rolls an open
\* transaction back, so the connection's view is the committed file
ProcessEnds(p) ==
  IF p = "killed"
    THEN /\ todo' = {}
         /\ entry' = <<>>
         /\ db_con' = IF db_con.state = "unbound" THEN db_con ELSE Close(db_con, file)
    ELSE UNCHANGED <<todo, entry, db_con>>

\* where a SIGINT arrived, as far as the history keeps it
SigintPlace(stage) == IF stage \in {"db_verifying", "db_building"} THEN stage ELSE "other"

\* a SIGINT is delivered to the process
Sigint ==
  /\ pc \notin Terminal
  /\ sigints < MaxSigints
  /\ sigints' = sigints + 1
  /\ SetSigState(RaiseSignal(SigState))
  /\ ProcessEnds(RaiseSignal(SigState).pc)
  /\ hist' = [hist EXCEPT !.sigIn = @ \cup {SigintPlace(CurStage)}]
  /\ UNCHANGED <<file, runs, faults, output_data, db_created>>
  /\ UNCHANGED aside

\* _sigint_custom_handler, lines 170-180: the user answers the prompt
Answers == {"y", "n", "other"}
Resume(t) == t = "y"
Answer ==
  /\ pc \notin Terminal
  /\ tries > 0
  /\ \E t \in Answers :
       /\ IF Resume(t)
            THEN /\ SetSigState([SigState EXCEPT !.handler = "custom", !.tries = 0])
                 /\ UNCHANGED <<todo, entry, db_con>>
            ELSE IF t = "other" /\ tries < 3
              THEN /\ SetSigState([SigState EXCEPT !.tries = @ + 1])
                   /\ UNCHANGED <<todo, entry, db_con>>
              ELSE /\ SetSigState(RaiseSignal([SigState EXCEPT !.tries = 0]))
                   /\ ProcessEnds(RaiseSignal([SigState EXCEPT !.tries = 0]).pc)
       /\ hist' = [hist EXCEPT !.answered = t]
  /\ UNCHANGED <<file, runs, sigints, faults, output_data, db_created>>
  /\ UNCHANGED aside

\* the program is started again on the same path, with a newly loaded record
NextRun ==
  /\ pc \in Terminal
  /\ runs < MaxRuns
  /\ runs' = runs + 1
  /\ \E r \in Records :
       /\ output_data' = [entries |-> r, output_timestamp |-> Clock(runs + 1)]
       /\ hist' = [NewHist(file, pc = "done" /\ r = output_data.entries)
                    EXCEPT !.fresh = hist.fresh]
  /\ pc' = "start"
  /\ ctx' = <<>>
  /\ exc' = NoExc
  /\ handler' = "default_int_handler"
  /\ tries' = 0
  /\ db_con' = Unbound
  /\ db_created' = FALSE
  /\ todo' = {}
  /\ entry' = <<>>
  /\ UNCHANGED <<file, sigints, faults>>
  /\ UNCHANGED aside

Next ==
  \/ Start
  \/ Enter
  \/ ConnectCreate
  \/ ConnectOpen
  \/ Branch
  \/ Verify
  \/ Build
  \/ FillTimestamp
  \/ FillCollection
  \/ FillLoop
  \/ FillEntry
  \/ CommitStep
  \/ CloseStep
  \/ ExitCtx
  \/ ExceptFinally
  \/ Return
  \/ Sigint
  \/ Answer
  \/ NextRun

Spec == Init /\ [][Next]_vars

TypeOK ==
  /\ pc \in {"start", "branch", "v_body", "c_create", "c_open", "f_ts", "f_co", "f_loop",
             "f_e", "d_commit", "d_x0", "ret", "unwind"} \cup Terminal \cup DOMAIN Withs
             \cup DOMAIN Succ \cup DOMAIN BuildNext
  /\ handler \in {"default_int_handler", "detain", "custom", "SIG_DFL"}
  /\ tries \in 0..3

\* store_output_data is not running
StoreIdle ==
  /\ file = NoFile
  /\ runs = 0
  /\ sigints = 0
  /\ faults = 0
  /\ pc = "done"
  /\ ctx = <<>>
  /\ exc = NoExc
  /\ handler = "default_int_handler"
  /\ tries = 0
  /\ db_con = Unbound
  /\ output_data = [entries |-> {}, output_timestamp |-> Clock(0)]
  /\ db_created = FALSE
  /\ todo = {}
  /\ entry = <<>>
  /\ hist = NewHist(NoFile, FALSE)

\* ------------------------------------------------------------ DetainSigint
\* A program that enters and leaves DetainSigint contexts, nested up to MaxDepth,
\* while SIGINTs arrive.  det.handler is the process's SIGINT handler: the one
\* installed before any context (k = "base", it counts its invocations in calls),
\* the _detain_handler of the context at stack[i], or SIG_IGN.
BaseHandler == [k |-> "base", i |-> 0]

\* lines 107-112: _handler = _detain_handler if not self._suppress else signal.SIG_IGN
DetainSigint_handler(suppress, i) ==
  IF ~suppress THEN [k |-> "detain", i |-> i] ELSE [k |-> "SIG_IGN", i |-> 0]

\* the interpreter runs the installed handler for one SIGINT
Deliver(d) ==
  CASE d.handler.k = "base" -> [d EXCEPT !.calls = @ + 1]
    [] d.handler.k = "detain" -> [d EXCEPT !.stack[d.handler.i].occured = TRUE]
    [] OTHER -> d

\* lines 115-117: whether __exit__ raises the signal again
DetainSigint_exit_forgets(f) == FALSE
DetainSigint_exit_raises(f) == f.occured

DetainInit ==
  /\ StoreIdle
  /\ bk = NoLoad
  /\ tol = NoLoad
  /\ mn = NoMain
  /\ det = [on |-> TRUE, stack |-> <<>>, handler |-> BaseHandler, calls |-> 0,
            sigs |-> 0, entered |-> 0,
            outside |-> 0, kept |-> FALSE, owed |-> 0, inside |-> 0, deep |-> FALSE]

\* DetainSigint(suppress).__enter__, lines 105-113
DetainEnter ==
  /\ det.on
  /\ Len(det.stack) < MaxDepth
  /\ det.entered < MaxContexts
  /\ \E suppress \in BOOLEAN :
       det' = [det EXCEPT
                 !.stack = Append(@, [suppress |-> suppress, occured |-> FALSE,
                                      prev |-> det.handler]),
                 !.handler = DetainSigint_handler(suppress, Len(det.stack) + 1),
                 !.entered = @ + 1,
                 !.inside = IF det.stack = <<>> THEN 0 ELSE @,
                 !.deep = IF det.stack = <<>> THEN FALSE ELSE @]
  /\ UNCHANGED <<store, bk, tol, mn>>

\* DetainSigint.__exit__, lines 114-118
DetainExit ==
  /\ det.on
  /\ det.stack # <<>>
  /\ LET f == det.stack[Len(det.stack)]
         left == [det EXCEPT !.stack = SubSeq(@, 1, Len(@) - 1), !.handler = f.prev]
         after == IF DetainSigint_exit_raises(f) THEN Deliver(left) ELSE left
     IN det' = IF Len(det.stack) = 1
                 THEN [after EXCEPT !.owed = IF det.kept THEN @ + 1 ELSE @, !.kept = FALSE]
                 ELSE after
  /\ UNCHANGED <<store, bk, tol, mn>>

\* a SIGINT arrives; it is kept for later when no context around it suppresses
DetainSigintArrives ==
  /\ det.on
  /\ det.sigs < MaxDetainSigints
  /\ LET d == Deliver(det)
         free == \A i \in 1..Len(det.stack) : ~det.stack[i].suppress
     IN det' = [d EXCEPT
                  !.sigs = @ + 1,
                  !.outside = IF det.stack = <<>> THEN @ + 1 ELSE @,
                  !.inside = IF det.stack # <<>> /\ free THEN @ + 1 ELSE @,
                  !.kept = @ \/ (det.stack # <<>> /\ free),
                  !.deep = @ \/ (Len(det.stack) >= 2 /\ free)]
  /\ UNCHANGED <<store, bk, tol, mn>>

DetainNext ==
  \/ DetainEnter
  \/ DetainExit
  \/ DetainSigintArrives

SpecDetain == DetainInit /\ [][DetainNext]_vars

\* ------------------------------------------------ Bookmark-Tree loader
\* A JSON object node is a record: keys is the set of its keys, bad the keys whose
\* value fails the presence-and-type lambda of lines 111-134, emptynum the
\* digit-only strings that are empty, guid the two nibbles uuid.UUID reads, and
\* children the value of 'children'.  json = "string" is a node that is no object.
RFC_4122 == "specified in RFC 4122"

\* uuid.UUID.variant: from the first nibble of the fourth group
UuidVariant(g) ==
  IF g.var < 8 THEN "reserved for NCS compatibility"
  ELSE IF g.var < 12 THEN RFC_4122
  ELSE IF g.var < 14 THEN "reserved for Microsoft compatibility"
  ELSE "reserved for future definition"

\* uuid.UUID.version: the first nibble of the third group, None (-1) off RFC 4122
UuidVersion(g) == IF UuidVariant(g) = RFC_4122 THEN g.ver ELSE -1

\* lines 146-149: the version a GUID must have
RequiredGuidVersionEverywhere5(is_root) == 5
RequiredGuidVersion(is_root) == IF is_root THEN 5 ELSE 4

\* lines 102-161
check_node_contents(node, is_root) ==
  IF "type" \notin node.keys \/ "type" \in node.bad THEN "UnexpectedInputError"
  ELSE
    LET required == {"date_added", "guid", "id", "name", "type"}
                      \cup (IF node.type = "url" THEN {"url"} ELSE {})
                      \cup (IF node.type = "folder" THEN {"children"} ELSE {})
        optional == {"date_modified"} \cup (IF node.type = "url" THEN {"meta_info"} ELSE {})
    IN IF ~(required \subseteq node.keys) THEN "UnexpectedInputError"
       ELSE IF ~(node.keys \subseteq required \cup optional) THEN "UnexpectedInputError"
       ELSE IF node.bad \cap node.keys # {} THEN "UnexpectedInputError"
       ELSE IF "date_added" \in node.emptynum THEN "ValueError"
       ELSE IF "date_modified" \in node.keys /\ "date_modified" \in node.emptynum
         THEN "ValueError"
       ELSE IF UuidVariant(node.guid) # RFC_4122 THEN "UnexpectedInputError"
       ELSE IF UuidVersion(node.guid) # RequiredGuidVersion(is_root)
         THEN "UnexpectedInputError"
       ELSE IF "id" \in node.emptynum THEN "ValueError"
       ELSE IF "meta_info" \in node.keys /\ ~node.meta_ok THEN "UnexpectedInputError"
       ELSE "ok"

\* lines 197-198: what a node adds to output_data.entries
entry_cb_adds_any_type(node) == {<<node.url, node.name>>}
entry_cb_adds(node) ==
  IF node.type = "url" THEN {<<node.url, node.name>>} ELSE {}

\* lines 194-199: _entry_cb; node.copy() fails on a node that is no object
entry_cb(node, is_root) ==
  IF node.json # "object" THEN [exc |-> "AttributeError", adds |-> {}]
  ELSE IF check_node_contents(node, is_root) # "ok"
    THEN [exc |-> check_node_contents(node, is_root), adds |-> {}]
  ELSE [exc |-> "ok", adds |-> entry_cb_adds(node)]

\* lines 168-189: the callback on the node, then on its children in order; a failure
\* comes back as _ErrorDuringTreeTraversal with the child numbers down to the node
RECURSIVE process_input_tree(_, _, _, _)
RECURSIVE process_children(_, _, _)
process_input_tree(node, num, started_at_root, acc) ==
  LET r == entry_cb(node, started_at_root)
  IN IF r.exc # "ok"
       THEN [ok |-> FALSE, nums |-> <<num>>, cause |-> r.exc, entries |-> acc]
     ELSE IF "children" \in node.keys
       THEN LET c == process_children(node.children, 1, acc \cup r.adds)
            IN IF c.ok THEN c ELSE [c EXCEPT !.nums = <<num>> \o @]
     ELSE [ok |-> TRUE, nums |-> <<>>, cause |-> "ok", entries |-> acc \cup r.adds]

process_children(children, i, acc) ==
  IF i > Len(children)
    THEN [ok |-> TRUE, nums |-> <<>>, cause |-> "ok", entries |-> acc]
    ELSE LET r == process_input_tree(children[i], i - 1, FALSE, acc)
         IN IF r.ok THEN process_children(children, i + 1, r.entries) ELSE r

\* '.'.join(map(str, nums))
RECURSIVE JoinDots(_)
JoinDots(nums) ==
  IF nums = <<>> THEN ""
  ELSE IF Len(nums) = 1 THEN ToString(nums[1])
  ELSE ToString(nums[1]) \o "." \o JoinDots(Tail(nums))

\* line 205: root_key + '.' + '.'.join(list(map(str, err.nums))[1:])
address_str_whole(root_key, nums) == root_key \o "." \o JoinDots(nums)
address_str(root_key, nums) == root_key \o "." \o JoinDots(Tail(nums))

\* lines 191-210: the roots in document order
RECURSIVE convert_roots(_, _, _)
convert_roots(roots, i, acc) ==
  IF i > Len(roots)
    THEN [exc |-> "ok", address |-> "", entries |-> acc]
    ELSE LET r == process_input_tree(roots[i].node, 0, TRUE, acc)
         IN IF r.ok THEN convert_roots(roots, i + 1, r.entries)
            ELSE [exc |-> "UnexpectedInputError",
                  address |-> address_str(roots[i].key, r.nums), entries |-> {}]

convert_internal_data(doc) == convert_roots(doc.roots, 1, {})

\* lines 38-62: the file is located, opened, decoded and parsed
load_from_file(doc) ==
  CASE doc.file \in {"missing", "unreadable"} -> "FileAccessError"
    [] doc.file \in {"corrupted", "misencoded"} -> "UnexpectedInputError"
    [] OTHER -> "ok"

\* lines 66-69
is_checksum_valid(c) == c.t = "str" /\ c.len = 32 /\ c.hex

\* lines 64-96, the exception it ends with; the messages of lines 76 and 82 read
\* data['id'] and data['data']
precheck_parsed_input_data(doc) ==
  IF doc.top # "mapping" THEN "TypeError"
  ELSE IF "version" \notin doc.keys THEN "KeyError"
  ELSE IF doc.version.t \notin {"int", "float", "bool"} THEN "UnexpectedInputError"
  ELSE IF ~(doc.version.t \in {"int", "bool"} /\ doc.version.v = 1)
    THEN IF "id" \in doc.keys THEN "UnexpectedInputError" ELSE "KeyError"
  ELSE IF "checksum" \notin doc.keys THEN "KeyError"
  ELSE IF ~is_checksum_valid(doc.checksum) THEN "UnexpectedInputError"
  ELSE IF "roots" \notin doc.keys THEN "KeyError"
  ELSE IF ~doc.roots_mapping
    THEN IF "data" \in doc.keys THEN "UnexpectedInputError" ELSE "KeyError"
  ELSE IF ~({"bookmark_bar", "other", "synced"} \subseteq {doc.roots[i].key : i \in 1..Len(doc.roots)})
    THEN "UnexpectedInputError"
  ELSE IF ~({doc.roots[i].key : i \in 1..Len(doc.roots)} \subseteq {"bookmark_bar", "other", "synced"})
    THEN "UnexpectedInputError"
  ELSE "ok"

\* the documents load_input_data is called on
RECURSIVE SeqsUpTo(_, _)
SeqsUpTo(S, n) ==
  IF n = 0 THEN {<<>>}
  ELSE LET shorter == SeqsUpTo(S, n - 1)
       IN shorter \cup {Append(q, x) : q \in {t \in shorter : Len(t) = n - 1}, x \in S}

BookmarkDocs ==
  LET
      G4 == [var |-> 8, ver |-> 4]
      G5 == [var |-> 8, ver |-> 5]
      BaseKeys == {"date_added", "guid", "id", "name", "type"}
      UrlNode(url, name, guid) ==
        [json |-> "object", keys |-> BaseKeys \cup {"url"}, bad |-> {}, emptynum |-> {},
         type |-> "url", guid |-> guid, url |-> url, name |-> name, meta_ok |-> TRUE,
         children |-> <<>>]
      FolderNode(name, guid, children) ==
        [json |-> "object", keys |-> BaseKeys \cup {"children"}, bad |-> {}, emptynum |-> {},
         type |-> "folder", guid |-> guid, url |-> "", name |-> name, meta_ok |-> TRUE,
         children |-> children]
      OtherTypeNode(name, guid) ==
        [json |-> "object", keys |-> BaseKeys, bad |-> {}, emptynum |-> {},
         type |-> "separator", guid |-> guid, url |-> "", name |-> name, meta_ok |-> TRUE,
         children |-> <<>>]
      StringNode ==
        [json |-> "string", keys |-> {}, bad |-> {}, emptynum |-> {},
         type |-> "", guid |-> G4, url |-> "", name |-> "", meta_ok |-> TRUE, children |-> <<>>]

      UrlA == UrlNode("https://a.example", "A", G4)
      UrlB == UrlNode("https://b.example", "B", G4)
      NoGuid == [UrlNode("https://c.example", "C", G4) EXCEPT !.keys = @ \ {"guid"}]
      NonRootV5 == UrlNode("https://d.example", "D", G5)

      \* what a root folder may hold
      ChildNodes ==
        { UrlA, UrlB, NoGuid, NonRootV5, OtherTypeNode("S", G4),
          FolderNode("F", G4, <<>>), FolderNode("F", G4, <<UrlB>>), FolderNode("F", G4, <<NoGuid>>) }

      OtherRoots ==
        { FolderNode("other", G5, <<>>),
          FolderNode("other", G5, <<UrlA, UrlA, NoGuid>>),
          FolderNode("other", G4, <<>>),
          UrlNode("https://a.example", "A", G5),
          OtherTypeNode("other", G5),
          [FolderNode("other", G5, <<UrlA>>) EXCEPT !.emptynum = {"id"}] }

      Roots(bar, other) ==
        << [key |-> "bookmark_bar", node |-> bar], [key |-> "other", node |-> other],
           [key |-> "synced", node |-> FolderNode("synced", G5, <<>>)] >>

      GoodTop(roots) ==
        [file |-> "ok", top |-> "mapping", keys |-> {"version", "checksum", "roots"},
         version |-> [t |-> "int", v |-> 1], checksum |-> [t |-> "str", len |-> 32, hex |-> TRUE],
         roots_mapping |-> TRUE, roots |-> roots]

      TreeDocs ==
        { GoodTop(Roots(FolderNode("bar", G5, c), o)) :
            c \in SeqsUpTo(ChildNodes, MaxChildren), o \in OtherRoots }

      PlainRoots == Roots(FolderNode("bar", G5, <<UrlA>>), FolderNode("other", G5, <<UrlB>>))
      TopKeys == {"version", "checksum", "roots", "id", "data"}
      TopDocs ==
        { [GoodTop(PlainRoots) EXCEPT !.keys = k, !.version = v, !.checksum = c,
                                      !.roots_mapping = m] :
            k \in {x \in SUBSET TopKeys : Cardinality({"version", "checksum", "roots"} \ x) <= 1},
            v \in {[t |-> "int", v |-> 1], [t |-> "int", v |-> 2], [t |-> "float", v |-> 1],
                   [t |-> "str", v |-> 1], [t |-> "bool", v |-> 1]},
            c \in {[t |-> "str", len |-> 32, hex |-> TRUE], [t |-> "str", len |-> 32, hex |-> FALSE],
                   [t |-> "int", len |-> 32, hex |-> TRUE]},
            m \in BOOLEAN }
          \cup { [GoodTop(PlainRoots) EXCEPT !.file = f] :
                   f \in {"missing", "unreadable", "corrupted", "misencoded"} }
          \cup { [GoodTop(PlainRoots) EXCEPT !.top = "list"] }
          \cup { GoodTop(SubSeq(PlainRoots, 1, 2)),
                 GoodTop(Append(PlainRoots, [key |-> "mobile", node |-> FolderNode("m", G5, <<>>)])),
                 GoodTop(<< [key |-> "other", node |-> FolderNode("other", G5, <<StringNode>>)],
                            [key |-> "synced", node |-> FolderNode("synced", G5, <<>>)],
                            [key |-> "bookmark_bar", node |-> FolderNode("bar", G4, <<>>)] >>) }
  IN TreeDocs \cup TopDocs

\* load_input_data is called on the document d
BkCall(d) ==
  [on |-> TRUE, doc |-> d, phase |-> "start", exc |-> "none", stage |-> "none",
   address |-> "", entries |-> {}]

BkInit ==
  /\ StoreIdle
  /\ det = NoDetain
  /\ tol = NoLoad
  /\ mn = NoMain
  /\ \E d \in BookmarkDocs : bk = BkCall(d)

BkFail(stage, e, address) ==
  bk' = [bk EXCEPT !.phase = "failed", !.stage = stage, !.exc = e, !.address = address]

\* line 214
BkLoadFromFile ==
  /\ bk.on
  /\ bk.phase = "start"
  /\ IF load_from_file(bk.doc) = "ok"
       THEN bk' = [bk EXCEPT !.phase = "parsed"]
       ELSE BkFail("load", load_from_file(bk.doc), "")
  /\ UNCHANGED <<store, det, tol, mn>>

\* line 215
BkPrecheck ==
  /\ bk.on
  /\ bk.phase = "parsed"
  /\ IF precheck_parsed_input_data(bk.doc) = "ok"
       THEN bk' = [bk EXCEPT !.phase = "prechecked"]
       ELSE BkFail("precheck", precheck_parsed_input_data(bk.doc), "")
  /\ UNCHANGED <<store, det, tol, mn>>

\* lines 216-217
BkConvert ==
  /\ bk.on
  /\ bk.phase = "prechecked"
  /\ LET r == convert_internal_data(bk.doc)
     IN IF r.exc = "ok"
          THEN bk' = [bk EXCEPT !.phase = "done", !.entries = r.entries]
          ELSE BkFail("convert", r.exc, r.address)
  /\ UNCHANGED <<store, det, tol, mn>>

BkNext ==
  \/ BkLoadFromFile
  \/ BkPrecheck
  \/ BkConvert

SpecBookmarks == BkInit /\ [][BkNext]_vars

\* -------------------------------------------------- Session-Log loader
\* A JSON value of the payload is a record: json is its kind, len its length, keys
\* the keys of an object, code what is found where a type code is read, and the
\* other fields hold its parts.  A scalar read by float() or divided is
\* [t |-> "number" | "numstr" | "badstr" | "null", n |-> its value].

\* commons.silence_exc line 78: err in excs, an instance looked up among classes
err_in_excs(err, excs) == FALSE

\* float(x): the exception it raises, "none" if it converts
float_raises(x) ==
  CASE x.t \in {"number", "numstr"} -> "none"
    [] x.t = "badstr" -> "ValueError"
    [] OTHER -> "TypeError"

\* commons.silence_exc, lines 55-82: [raised, escapes]
silence_exc(raises, excs) ==
  IF raises = "none" THEN [raised |-> "none", escapes |-> "none"]
  ELSE IF err_in_excs(raises, excs) THEN [raised |-> raises, escapes |-> "none"]
  ELSE [raised |-> "none", escapes |-> raises]

\* lines 26-39: the fields whose Python type is not the expected one, in field order
FIELD_TYPES ==
  << <<"id", "float">>, <<"timestamp", "float">>, <<"op_array_len", "float">>,
     <<"data", "str">> >>
check_input_fields_types_first_only(types) ==
  SubSeq(SelectSeq(FIELD_TYPES, LAMBDA f : types[f[1]] # f[2]), 1, 1)
check_input_fields_types(types) ==
  SelectSeq(FIELD_TYPES, LAMBDA f : types[f[1]] # f[2])

\* lines 53-125, the exception it ends with
to_load_from_file(src) ==
  IF src.file = "missing" THEN "FileAccessError"
  ELSE IF src.file \in {"notable", "garbage"} THEN "DatabaseAccessError"
  ELSE IF src.rows # 1 THEN "UnexpectedInputError"
  ELSE IF src.cols # 4 THEN "UnexpectedInputError"
  ELSE IF check_input_fields_types(src.types) # <<>> THEN "UnexpectedInputError"
  ELSE IF src.timestamp.range = "year" THEN "UnexpectedInputError"
  ELSE IF src.timestamp.range = "time_t" THEN "OverflowError"
  ELSE IF src.data.json = "corrupt" THEN "UnexpectedInputError"
  ELSE "ok"

\* lines 155-173: the first sentinel
first_sentinel(e) ==
  IF e.json # "object" THEN "AssertionError"
  ELSE IF e.keys # {"type", "node"} THEN "AssertionError"
  ELSE IF e.code # 2000 THEN "AssertionError"
  ELSE IF ~e.node.mapping THEN "AssertionError"
  ELSE IF e.node.keys # {"type", "data"} THEN "AssertionError"
  ELSE IF e.node.type # "session" THEN "AssertionError"
  ELSE IF ~e.node.data.mapping THEN "AssertionError"
  ELSE IF e.node.data.keys # {"treeId", "nextDId", "nonDumpedDId"} THEN "AssertionError"
  ELSE IF silence_exc(float_raises(e.node.data.treeId), {"TypeError", "ValueError"}).escapes
            # "none"
    THEN silence_exc(float_raises(e.node.data.treeId), {"TypeError", "ValueError"}).escapes
  ELSE IF silence_exc(float_raises(e.node.data.treeId), {"TypeError", "ValueError"}).raised
            # "none"
    THEN "AssertionError"
  ELSE IF e.node.data.treeId.n < 0 THEN "AssertionError"
  ELSE IF e.node.data.nextDId # 1 THEN "AssertionError"
  ELSE IF e.node.data.nonDumpedDId # 1 THEN "AssertionError"
  ELSE "ok"

\* lines 174-180: the last sentinel
last_sentinel(e) ==
  IF e.json # "object" THEN "AssertionError"
  ELSE IF e.keys # {"type", "time"} THEN "AssertionError"
  ELSE IF e.code # 11111 THEN "AssertionError"
  ELSE "ok"

\* lines 181-183: the time of the last sentinel against the row's timestamp, both in ms
TimesRelated(time, timestamp) == time < timestamp /\ timestamp - time < 10000

\* lines 149-153: op_array_len == len(data)
length_matches_always(src) == TRUE
length_matches(src) ==
  src.op_array_len.kind = "whole" /\ src.op_array_len.n = Len(src.data.items)

\* lines 127-192, the exception it ends with
to_precheck_parsed_input_data(src) ==
  LET dada == src.data.items
  IN IF src.id # 1 THEN "UnexpectedInputError"
     ELSE IF src.timestamp.ms < 0 THEN "UnexpectedInputError"
     ELSE IF src.op_array_len.kind = "inf" THEN "OverflowError"
     ELSE IF src.op_array_len.kind = "frac" \/ src.op_array_len.n < 0
       THEN "UnexpectedInputError"
     ELSE IF src.data.json \notin {"array", "string"} THEN "UnexpectedInputError"
     ELSE IF ~length_matches(src) THEN "UnexpectedInputError"
     ELSE IF dada = <<>> THEN "IndexError"
     ELSE IF first_sentinel(dada[1]) = "AssertionError" THEN "UnexpectedInputError"
     ELSE IF first_sentinel(dada[1]) # "ok" THEN first_sentinel(dada[1])
     ELSE IF last_sentinel(dada[Len(dada)]) # "ok" THEN "UnexpectedInputError"
     ELSE IF dada[Len(dada)].time.t # "number" THEN "TypeError"
     ELSE IF ~TimesRelated(dada[Len(dada)].time.n, src.timestamp.ms)
       THEN "UnexpectedInputError"
     ELSE "ok"

\* lines 226-333: the data sub-object against the schema of its type ("" for none)
DataRequired(typ) ==
  CASE typ = "" -> {"audible", "autoDiscardable", "discarded", "mutedInfo", "title", "url"}
    [] typ = "tab" -> {"audible", "autoDiscardable", "discarded", "mutedInfo", "title",
                       "url", "id"}
    [] typ \in {"savedwin", "win"} -> {"type", "rect"}
    [] OTHER -> {"rect"}
DataOptional(typ) ==
  CASE typ = "" -> {"active", "favIconUrl", "groupId", "highlighted", "openerTabId",
                    "pendingUrl", "id", "wasSavedOnLastWinSave", "windowId"}
    [] typ = "tab" -> {"active", "favIconUrl", "groupId", "highlighted", "openerTabId",
                       "pendingUrl", "status", "windowId"}
    [] typ = "savedwin" -> {"id", "focused", "crashDetectedDate"}
    [] typ = "win" -> {"id", "focused", "state"}
    [] OTHER -> {}
check_data_subobj(d, typ) ==
  IF ~d.mapping THEN "UnexpectedInputError"
  ELSE IF typ = "group"
    THEN IF "rect" \in d.keys /\ "rect" \notin d.bad /\ d.adv_ok
           THEN "ok" ELSE "UnexpectedInputError"
  ELSE IF ~(DataRequired(typ) \subseteq d.keys) THEN "UnexpectedInputError"
  ELSE IF ~(d.keys \subseteq DataRequired(typ) \cup DataOptional(typ))
    THEN "UnexpectedInputError"
  ELSE IF d.bad \cap d.keys # {} THEN "UnexpectedInputError"
  ELSE IF ~d.adv_ok THEN "UnexpectedInputError"
  ELSE "ok"

\* lines 335-367: the content mapping of an entry, what the error it raises reports
\* ("none" when it raises nothing)
entry_contents_message_data_first(c) ==
  IF "data" \notin c.keys THEN "no data"
  ELSE IF check_data_subobj(c.data, IF "type" \in c.keys THEN c.type ELSE "") # "ok"
    THEN "data"
  ELSE IF "type" \in c.keys /\ c.type \notin {"savedwin", "group", "tab", "win"}
    THEN "unknown type"
  ELSE "none"
entry_contents_message(c) ==
  IF "type" \in c.keys /\ c.type \notin {"savedwin", "group", "tab", "win"}
    THEN "unknown type"
  ELSE IF "type" \in c.keys /\ "marks" \in c.keys /\ ~c.marks_ok THEN "marks"
  ELSE IF "type" \in c.keys /\ c.type \in {"group", "win"} /\ "colapsed" \in c.keys
          /\ ~c.colapsed_ok
    THEN "colapsed"
  ELSE IF "data" \notin c.keys THEN "no data"
  ELSE IF check_data_subobj(c.data, IF "type" \in c.keys THEN c.type ELSE "") # "ok"
    THEN "data"
  ELSE "none"

\* lines 194-367: the content mapping of an entry
check_input_entry_contents(c) ==
  IF entry_contents_message(c) = "none" THEN "ok" ELSE "UnexpectedInputError"

\* lines 376-385: one element between the sentinels, the exception it ends with
check_input_entry(e) ==
  IF e.json \in {"number", "null"} THEN "TypeError"
  ELSE IF e.len # 3 THEN "UnexpectedInputError"
  ELSE IF e.json = "object" THEN "KeyError"
  ELSE IF e.json = "string" THEN "UnexpectedInputError"
  ELSE IF e.code # 2001 THEN "UnexpectedInputError"
  ELSE IF ~e.contents.mapping THEN "UnexpectedInputError"
  ELSE IF ~e.children_ok THEN "UnexpectedInputError"
  ELSE check_input_entry_contents(e.contents)

\* lines 382-385: the text of the error of _check_input_entry_contents, which the
\* error of the entry quotes ("none" when the entry fails before line 382)
input_entry_message(e) ==
  IF e.json = "array" /\ e.len = 3 /\ e.code = 2001 /\ e.contents.mapping /\ e.children_ok
    THEN entry_contents_message(e.contents)
    ELSE "none"

\* lines 387-389: what a valid element adds to output_data.entries
to_entry_adds_any_type(e) == {<<e.contents.data.url, e.contents.data.title>>}
to_entry_adds(e) ==
  IF "type" \notin e.contents.keys \/ e.contents.type = "tab"
    THEN {<<e.contents.data.url, e.contents.data.title>>}
    ELSE {}

\* lines 370-390: the elements of data[1:-1] in order, numbered from 1
RECURSIVE convert_entries(_, _, _)
convert_entries(between, i, acc) ==
  IF i > Len(between)
    THEN [exc |-> "ok", pos |-> 0, msg |-> "none", entries |-> acc,
          examined |-> Len(between)]
  ELSE IF check_input_entry(between[i]) # "ok"
    THEN [exc |-> check_input_entry(between[i]),
          pos |-> IF check_input_entry(between[i]) = "UnexpectedInputError" THEN i ELSE 0,
          msg |-> input_entry_message(between[i]),
          entries |-> {}, examined |-> i]
  ELSE convert_entries(between, i + 1, acc \cup to_entry_adds(between[i]))

to_convert_internal_data(src) ==
  convert_entries(SubSeq(src.data.items, 2, Len(src.data.items) - 1), 1, {})

\* the source databases load_input_data is called on
SessionLogSources ==
  LET
      Scalar(t, n) == [t |-> t, n |-> n]
      NoData == [mapping |-> FALSE, keys |-> {}, bad |-> {}, adv_ok |-> TRUE, url |-> "", title |-> ""]
      NoContents ==
        [mapping |-> FALSE, keys |-> {}, type |-> "", marks_ok |-> TRUE, colapsed_ok |-> TRUE,
         data |-> NoData]
      NoNode ==
        [mapping |-> FALSE, keys |-> {}, type |-> "",
         data |-> [mapping |-> FALSE, keys |-> {}, treeId |-> Scalar("null", 0), nextDId |-> 0,
                   nonDumpedDId |-> 0]]
      Elem(json, len) ==
        [json |-> json, len |-> len, keys |-> {}, code |-> 0, node |-> NoNode,
         time |-> Scalar("null", 0), contents |-> NoContents, children_ok |-> TRUE]

      FirstSentinel(treeId) ==
        [Elem("object", 2) EXCEPT !.keys = {"type", "node"}, !.code = 2000,
           !.node = [mapping |-> TRUE, keys |-> {"type", "data"}, type |-> "session",
                     data |-> [mapping |-> TRUE, keys |-> {"treeId", "nextDId", "nonDumpedDId"},
                               treeId |-> treeId, nextDId |-> 1, nonDumpedDId |-> 1]]]
      LastSentinel(time) ==
        [Elem("object", 2) EXCEPT !.keys = {"type", "time"}, !.code = 11111, !.time = time]
      Entry(contents) == [Elem("array", 3) EXCEPT !.code = 2001, !.contents = contents]
      Contents(keys, type, data) ==
        [mapping |-> TRUE, keys |-> keys, type |-> type, marks_ok |-> TRUE, colapsed_ok |-> TRUE,
         data |-> data]
      Data(keys, url, title) ==
        [mapping |-> TRUE, keys |-> keys, bad |-> {}, adv_ok |-> TRUE, url |-> url, title |-> title]

      SavedTab(url, title) == Entry(Contents({"data"}, "", Data(DataRequired(""), url, title)))
      OpenTab(url, title) ==
        Entry(Contents({"type", "data", "marks"}, "tab", Data(DataRequired("tab"), url, title)))
      Window == Entry(Contents({"type", "data", "colapsed"}, "win", Data(DataRequired("win"), "", "")))
      Group == Entry(Contents({"type", "data"}, "group", Data({"rect"}, "", "")))

      BetweenElems ==
        { SavedTab("https://a.example", "A"), OpenTab("https://a.example", "A"),
          OpenTab("https://b.example", "B"), Window, Group,
          Entry(Contents({"type", "data", "marks"}, "savedwin",
                         Data(DataRequired("savedwin"), "", ""))),
          Entry(Contents({"type", "data"}, "note", Data(DataRequired("tab"), "https://n.example", "N"))),
          Entry(Contents({"type"}, "note", NoData)),
          Entry(Contents({"type", "data"}, "tab",
                         Data(DataRequired("tab") \cup {"foo"}, "https://e.example", "E"))),
          Entry(Contents({"type", "data"}, "tab",
                         [Data(DataRequired("tab"), "https://f.example", "F")
                            EXCEPT !.bad = {"title"}])),
          Entry(Contents({"type", "data"}, "group", Data({"rect", "foo"}, "", ""))),
          Entry(Contents({"data"}, "", Data(DataRequired("") \ {"url"}, "", "C"))),
          Elem("array", 2), Elem("number", 0), Elem("object", 3) }

      \* the row's timestamp and the payload's closing time, in ms
      RowTime == 100000
      GoodFirst == FirstSentinel(Scalar("numstr", 123))
      GoodLast == LastSentinel(Scalar("number", RowTime - 1000))

      Payload(items) == [json |-> "array", items |-> items]
      Source(payload) ==
        [file |-> "ok", rows |-> 1, cols |-> 4,
         types |-> [id |-> "float", timestamp |-> "float", op_array_len |-> "float", data |-> "str"],
         id |-> 1, timestamp |-> [ms |-> RowTime, range |-> "ok"],
         op_array_len |-> [n |-> Len(payload.items), kind |-> "whole"], data |-> payload]

      LogSources ==
        { Source(Payload(<<GoodFirst>> \o b \o <<GoodLast>>)) : b \in SeqsUpTo(BetweenElems, MaxEntries) }

      PlainBetween == <<SavedTab("https://a.example", "A")>>
      PlainSource == Source(Payload(<<GoodFirst>> \o PlainBetween \o <<GoodLast>>))
      RowSources ==
        { [PlainSource EXCEPT !.file = f] : f \in {"missing", "garbage", "notable"} }
          \cup { [PlainSource EXCEPT !.rows = n] : n \in {0, 2} }
          \cup { [PlainSource EXCEPT !.cols = 3] }
          \cup { [PlainSource EXCEPT !.types = t] :
                   t \in [{"id", "timestamp", "op_array_len", "data"} -> {"float", "str"}] }
          \cup { [PlainSource EXCEPT !.timestamp = t] :
                   t \in {[ms |-> RowTime, range |-> "year"], [ms |-> RowTime, range |-> "time_t"],
                          [ms |-> 0 - 5000, range |-> "ok"]} }
          \cup { [PlainSource EXCEPT !.id = 2] }
          \cup { [PlainSource EXCEPT !.op_array_len = l] :
                   l \in {[n |-> 3, kind |-> "frac"], [n |-> 3, kind |-> "near"],
                          [n |-> 3, kind |-> "inf"], [n |-> 0 - 3, kind |-> "whole"],
                          [n |-> 5, kind |-> "whole"]} }
          \cup { [PlainSource EXCEPT !.data.json = j] : j \in {"corrupt", "object", "number"} }
          \cup { Source([json |-> "string", items |-> <<Elem("string", 1), Elem("string", 1)>>]),
                 Source(Payload(<<>>)), Source(Payload(<<GoodFirst>>)), Source(Payload(<<GoodLast>>)) }
          \cup { Source(Payload(<<f>> \o PlainBetween \o <<GoodLast>>)) :
                   f \in {FirstSentinel(Scalar("badstr", 0)), FirstSentinel(Scalar("null", 0)),
                          FirstSentinel(Scalar("number", 0 - 1)), FirstSentinel(Scalar("number", 7)),
                          [GoodFirst EXCEPT !.code = 2001], [GoodFirst EXCEPT !.node.data.nextDId = 2],
                          Elem("number", 0)} }
          \cup { Source(Payload(<<GoodFirst>> \o PlainBetween \o <<l>>)) :
                   l \in {LastSentinel(Scalar("numstr", RowTime - 1000)),
                          LastSentinel(Scalar("null", 0)),
                          LastSentinel(Scalar("number", RowTime)),
                          LastSentinel(Scalar("number", RowTime + 1)),
                          LastSentinel(Scalar("number", RowTime - 9999)),
                          LastSentinel(Scalar("number", RowTime - 10000)),
                          [GoodLast EXCEPT !.code = 2000], Elem("number", 0)} }
  IN LogSources \cup RowSources

\* load_input_data is called on the source database d
TolCall(d) ==
  [on |-> TRUE, src |-> d, phase |-> "start", exc |-> "none", stage |-> "none",
   pos |-> 0, msg |-> "none", fragments |-> <<>>, entries |-> {}, examined |-> 0]

TolInit ==
  /\ StoreIdle
  /\ det = NoDetain
  /\ bk = NoLoad
  /\ mn = NoMain
  /\ \E d \in SessionLogSources : tol = TolCall(d)

TolFail(stage, e) == [tol EXCEPT !.phase = "failed", !.stage = stage, !.exc = e]

\* line 394
TolLoadFromFile ==
  /\ tol.on
  /\ tol.phase = "start"
  /\ LET t == check_input_fields_types(tol.src.types)
         \* line 96 is reached with a row of four fields
         typed == tol.src.file = "ok" /\ tol.src.rows = 1 /\ tol.src.cols = 4
     IN tol' = IF to_load_from_file(tol.src) = "ok"
                 THEN [tol EXCEPT !.phase = "parsed"]
                 ELSE [TolFail("load", to_load_from_file(tol.src)) EXCEPT
                         !.fragments = IF typed THEN [i \in 1..Len(t) |-> t[i][1]] ELSE <<>>]
  /\ UNCHANGED <<store, det, bk, mn>>

\* line 395
TolPrecheck ==
  /\ tol.on
  /\ tol.phase = "parsed"
  /\ tol' = IF to_precheck_parsed_input_data(tol.src) = "ok"
              THEN [tol EXCEPT !.phase = "prechecked"]
              ELSE TolFail("precheck", to_precheck_parsed_input_data(tol.src))
  /\ UNCHANGED <<store, det, bk, mn>>

\* lines 396-397
TolConvert ==
  /\ tol.on
  /\ tol.phase = "prechecked"
  /\ LET r == to_convert_internal_data(tol.src)
     IN tol' = IF r.exc = "ok"
                 THEN [tol EXCEPT !.phase = "done", !.entries = r.entries,
                                  !.examined = r.examined]
                 ELSE [TolFail("convert", r.exc) EXCEPT !.pos = r.pos, !.msg = r.msg,
                                                        !.examined = r.examined]
  /\ UNCHANGED <<store, det, bk, mn>>

TolNext ==
  \/ TolLoadFromFile
  \/ TolPrecheck
  \/ TolConvert

SpecSessionLog == TolInit /\ [][TolNext]_vars

\* -------------------------------------------------------------------- main
\* application.main: the loader selected by conv_type is called on the input, then
\* store_output_data on the record it returned.  mn.pc is "load" while the loader
\* runs, "store" while store_output_data runs, then "returned" with the exit code in
\* mn.code, "raised" with the exception that left main in mn.exc, or "killed".

\* commons.ExitCode
SUCCESS == 0
EFILEACC == 2
EDBUNSPEC == 5
EBADINPUT == 22
EUSRINTER == 10054

\* commons.print_exception_traceback reads err.__type__, which no exception has
print_exception_traceback(verbose_errors) ==
  IF verbose_errors THEN "AttributeError" ELSE "none"

\* the code points of the texts of the loaders' inputs
CodePoints(t) ==
  LET Url(c) == <<104, 116, 116, 112, 115, 58, 47, 47, c, 46, 101, 120, 97, 109, 112, 108, 101>>
  IN CASE t = "https://a.example" -> Url(97)
       [] t = "https://b.example" -> Url(98)
       [] t = "https://c.example" -> Url(99)
       [] t = "https://d.example" -> Url(100)
       [] t = "https://e.example" -> Url(101)
       [] t = "https://f.example" -> Url(102)
       [] t = "https://n.example" -> Url(110)
       [] t = "A" -> <<65>>
       [] t = "B" -> <<66>>
       [] t = "C" -> <<67>>
       [] t = "D" -> <<68>>
       [] t = "E" -> <<69>>
       [] t = "F" -> <<70>>
       [] t = "N" -> <<78>>
       [] OTHER -> <<>>

\* the loader's call: its outcome and the entries it returned
Loader == IF mn.conv_type = "gcbf" THEN bk ELSE tol

MainInit ==
  /\ file \in {NoFile} \cup ForeignFiles
  /\ runs = 1
  /\ sigints = 0
  /\ faults = 0
  /\ pc = "start"
  /\ ctx = <<>>
  /\ exc = NoExc
  /\ handler = "default_int_handler"
  /\ tries = 0
  /\ db_con = Unbound
  /\ output_data = [entries |-> {}, output_timestamp |-> Clock(0)]
  /\ db_created = FALSE
  /\ todo = {}
  /\ entry = <<>>
  /\ hist = [NewHist(file, FALSE) EXCEPT !.fresh = file.kind = "none"]
  /\ det = NoDetain
  /\ \E t \in {"tosqldb", "gcbf"}, v \in BOOLEAN :
       /\ mn = [on |-> TRUE, conv_type |-> t, verbose_errors |-> v, pc |-> "load",
                loaded |-> "none", code |-> -1, exc |-> "none"]
       /\ IF t = "gcbf"
            THEN tol = NoLoad /\ \E d \in BookmarkDocs : bk = BkCall(d)
            ELSE bk = NoLoad /\ \E d \in SessionLogSources : tol = TolCall(d)

\* line 246: loader.load_input_data(start_args.input_db), one step of it
MainLoad ==
  /\ mn.on
  /\ mn.pc = "load"
  /\ IF mn.conv_type = "gcbf" THEN BkNext ELSE TolNext

\* the exit of main from an except clause that prints the traceback when asked to
MainHandled(code) ==
  IF print_exception_traceback(mn.verbose_errors) = "none"
    THEN [mn EXCEPT !.pc = "returned", !.code = code]
    ELSE [mn EXCEPT !.pc = "raised", !.exc = print_exception_traceback(mn.verbose_errors)]

\* lines 245-259: the loader returns the record, or main handles its error
MainLoaded ==
  /\ mn.on
  /\ mn.pc = "load"
  /\ Loader.phase \in {"done", "failed"}
  /\ LET m == [mn EXCEPT !.loaded = IF Loader.phase = "done" THEN "ok" ELSE Loader.exc]
     IN IF Loader.phase = "done"
          THEN /\ mn' = [m EXCEPT !.pc = "store"]
               /\ output_data' =
                    [entries |-> {<<CodePoints(e[1]), CodePoints(e[2])>> : e \in Loader.entries},
                     output_timestamp |-> Clock(1)]
          ELSE /\ mn' = CASE Loader.exc = "FileAccessError" ->
                               [m EXCEPT !.pc = "returned", !.code = EFILEACC]
                          [] Loader.exc = "DatabaseAccessError" ->
                               [MainHandled(EDBUNSPEC) EXCEPT !.loaded = m.loaded]
                          [] Loader.exc = "UnexpectedInputError" ->
                               [MainHandled(EBADINPUT) EXCEPT !.loaded = m.loaded]
                          [] OTHER -> [m EXCEPT !.pc = "raised", !.exc = Loader.exc]
               /\ UNCHANGED output_data
  /\ bk' = NoLoad
  /\ tol' = NoLoad
  /\ UNCHANGED <<file, runs, sigints, faults, pc, ctx, exc, handler, tries, db_con,
                 db_created, todo, entry, hist, det>>

\* line 262: store_output_data(data, start_args.output_db), one step of it
MainStore ==
  /\ mn.on
  /\ mn.pc = "store"
  /\ \/ Start
     \/ Enter
     \/ ConnectCreate
     \/ ConnectOpen
     \/ Branch
     \/ Verify
     \/ Build
     \/ FillTimestamp
     \/ FillCollection
     \/ FillLoop
     \/ FillEntry
     \/ CommitStep
     \/ CloseStep
     \/ ExitCtx
     \/ ExceptFinally
     \/ Return
     \/ Sigint
     \/ Answer

\* lines 261-286: store_output_data returns or raises, or the process was ended
MainStored ==
  /\ mn.on
  /\ mn.pc = "store"
  /\ pc \in Terminal
  /\ mn' = CASE pc = "done" -> [mn EXCEPT !.pc = "returned", !.code = SUCCESS]
             [] pc = "killed" -> [mn EXCEPT !.pc = "killed"]
             [] exc.type = "FileAccessError" -> [mn EXCEPT !.pc = "returned", !.code = EFILEACC]
             [] exc.type = "DatabaseAccessError" -> MainHandled(EDBUNSPEC)
             [] exc.type = "KeyboardInterrupt" ->
                  [mn EXCEPT !.pc = "returned", !.code = EUSRINTER]
             [] OTHER -> [mn EXCEPT !.pc = "raised", !.exc = exc.type]
  /\ UNCHANGED <<store, det, bk, tol>>

MainNext ==
  \/ MainLoad
  \/ MainLoaded
  \/ MainStore
  \/ MainStored

SpecMain == MainInit /\ [][MainNext]_vars

\* ----------------------------------------------------------------- claims
IsPrefix(a, b) == Len(a) <= Len(b) /\ SubSeq(b, 1, Len(a)) = a
Range(q) == {q[i] : i \in 1..Len(q)}

\* the identity and version headers hold the fixed constants
HeaderOk(d) ==
  /\ \E b \in output_db_extra_get(d, "db_id") : sqlite3_blob_decode_str(b) = OUTPUT_DB_ID_STR
  /\ \E b \in output_db_extra_get(d, "db_v") :
       Len(b) = 4 /\ sqlite3_blob_decode_int(b) = OUTPUT_DB_V_INT

\* the three tables and both header values
Complete(d) == d.tables = {"extra", "collections", "entries"} /\ HeaderOk(d)

\* every effect of the filling stage of the current invocation
AllEffects(d) ==
  /\ output_db_extra_get(d, "latest_output_timestamp")
       = {sqlite3_blob_encode_int(output_data.output_timestamp)}
  /\ DefaultCollectionRow \in d.collections
  /\ output_data.entries \subseteq PairsOf(d)

\* the stages of an invocation on a path where a file was (was not) found
StagesFor(existed) ==
  <<"db_connecting", IF existed THEN "db_verifying" ELSE "db_building",
    "db_filling", "db_disconnecting">>

\* C1: when an error (not an interruption) occurs in the filling stage, the file
\* holds what it held when filling began.
C1_FillingErrorRollsBack ==
  (pc = "raised" /\ hist.failedIn = "db_filling" /\ hist.sigIn = {})
    => file = hist.preFill

\* C2: at the prompt of the entry loop the run is aborted only on the answer y,
\* and on the answer n the loop goes on.
C2_AbortOnlyWhenConfirmed ==
  /\ hist.answered = "n" => pc # "killed"
  /\ pc = "killed" => hist.answered = "y"

\* C3: whenever SIGINTs arrive (and no statement fails), an invocation that reached
\* the filling stage leaves either all of the effects of filling or none of them.
C3_AllOrNothing ==
  (pc \in Terminal /\ "db_filling" \in Range(hist.stages) /\ hist.failedIn = "none")
    => (file = hist.preFill \/ AllEffects(file))

\* C4: a SIGINT received while verifying or building is not raised before the
\* savepoint of the stage is released, it is raised afterwards, and a building stage
\* in which no statement failed leaves all three tables and both header values.
C4_StageNotAborted ==
  /\ exc.type = "KeyboardInterrupt" =>
       \A i \in 1..Len(ctx) :
          ctx[i].k = "sp" => ctx[i].text \notin {"db_verifying", "db_building"}
  /\ (/\ hist.sigIn \cap {"db_verifying", "db_building"} # {}
      /\ hist.failedIn = "none"
      /\ pc \in Terminal) => (pc = "raised" /\ exc.type = "KeyboardInterrupt")
  /\ (/\ "db_building" \in Range(hist.stages)
      /\ hist.failedIn # "db_building"
      /\ \A i \in 1..Len(ctx) : ctx[i].k # "sp" \/ ctx[i].text # "db_building")
       => Complete(file)

C4_Witness ==
  /\ pc = "raised"
  /\ exc.type = "KeyboardInterrupt"
  /\ "db_building" \in hist.sigIn
  /\ hist.failedIn = "none"
  /\ Complete(file)
  /\ hist.pre.kind = "none"

\* C5: a failure in any stage reaches the caller as a DatabaseAccessError whose
\* failed_stage names the stage in which it occurred.
C5_FailureIsTagged ==
  (pc = "raised" /\ hist.failedIn # "none" /\ hist.sigIn = {})
    => /\ exc.type = "DatabaseAccessError"
       /\ exc.failed_stage = LOCAL_TO_EXTERNAL_STAGES[hist.failedIn]

\* the order of the stages of one invocation
StageOrder ==
  /\ IsPrefix(hist.stages, StagesFor(hist.pre.kind # "none"))
  /\ IsPrefix(hist.completed, hist.stages)
  /\ Len(hist.stages) <= Len(hist.completed) + 1
  /\ pc = "done" => hist.completed = StagesFor(hist.pre.kind # "none")

FailedAtStageInProgress ==
  /\ pc = "raised"
  /\ hist.stages # <<>>
  /\ hist.failedIn = hist.stages[Len(hist.stages)]
  /\ Len(hist.completed) = Len(hist.stages) - 1

BadHeader(d) == d.kind # "none" /\ ~HeaderOk(d)

\* C7: on an existing file with a missing or different db_id or db_v the invocation
\* fails in the verifying stage, never builds or fills, and the file stays as it was.
C7_ForeignRejected ==
  BadHeader(hist.pre) =>
    /\ file = hist.pre
    /\ "db_building" \notin Range(hist.stages)
    /\ "db_filling" \notin Range(hist.stages)
    /\ ("db_verifying" \in Range(hist.stages) /\ pc \in Terminal)
         => (pc = "raised" /\ hist.failedIn = "db_verifying")

C7_Witness ==
  /\ pc = "raised"
  /\ hist.failedIn = "db_verifying"
  /\ exc.type = "AssertionError"
  /\ hist.pre.tables = {"extra", "collections", "entries"}
  /\ BadHeader(hist.pre)

\* C8: whenever an invocation returns, db_id and db_v hold the fixed constants.
C8_HeaderAfterSuccess == pc = "done" => HeaderOk(file)

C8_Witness == pc = "done" /\ runs = 2 /\ ~db_created /\ HeaderOk(file)

\* C9: storing the record that the invocation before has stored leaves the
\* entries rows as they were.
C9_Idempotent ==
  (pc = "done" /\ hist.repeat)
    => /\ PairsOf(file) = PairsOf(hist.pre)
       /\ Cardinality(file.entries) = Cardinality(hist.pre.entries)

C9_Witness ==
  /\ pc = "done"
  /\ hist.repeat
  /\ Cardinality(file.entries) = 2

\* C10: no two entries rows hold the same pair, and an invocation that returns has
\* added exactly the pairs of its record that were not there.
C10_NoDuplicates ==
  /\ \A e1, e2 \in file.entries :
       (e1.full_url = e2.full_url /\ e1.title = e2.title) => e1 = e2
  /\ pc = "done" =>
       /\ PairsOf(file) = PairsOf(hist.pre) \cup output_data.entries
       /\ Cardinality(file.entries)
            = Cardinality(hist.pre.entries)
                + Cardinality(output_data.entries \ PairsOf(hist.pre))

C10_Witness ==
  /\ pc = "done"
  /\ Cardinality(hist.pre.entries) = 2
  /\ Cardinality(output_data.entries) = 2
  /\ Cardinality(output_data.entries \cap PairsOf(hist.pre)) = 1
  /\ Cardinality(file.entries) = 3

\* C11: no step of any run, successful or failed, removes or changes a committed row
\* of entries or collections: both tables only grow, row by row unchanged.
C11_RowsOnlyGrow ==
  [][/\ file.entries \subseteq file'.entries
     /\ file.collections \subseteq file'.collections]_vars

\* a later run has added rows to a file that already held some
C11_Witness ==
  /\ runs = 2
  /\ hist.pre.entries # {}
  /\ hist.pre.entries \subseteq file.entries
  /\ hist.pre.entries # file.entries

\* C12: after a successful run the collections table holds one row, the default
\* collection with its fixed UUID, text id and display name, whatever ran before.
C12_OneDefaultCollection ==
  pc = "done" =>
    /\ DefaultCollectionRow \in file.collections
    /\ \A c \in file.collections :
         c.collection_uuid = DefaultCollectionRow.collection_uuid => c = DefaultCollectionRow
    /\ Cardinality(file.collections) = 1

\* a successful run on a file whose collections table already held the default row
C12_Witness ==
  /\ pc = "done"
  /\ runs = 2
  /\ DefaultCollectionRow \in hist.pre.collections
  /\ file.collections = hist.pre.collections

\* C13: every committed entries row refers to a committed collections row, and the
\* connection enforces foreign keys whenever an entry is about to be inserted.
C13_ReferentialIntegrity ==
  /\ \A e \in file.entries :
       \E c \in file.collections : c.collection_uuid = e.collection_uuid
  /\ pc = "f_e" => db_con.fk

\* C14: the handler installed before a DetainSigint context is never invoked while
\* the program is inside one; after the outermost context is left it has been
\* invoked once if at least one SIGINT arrived inside with no suppressing context
\* around it, and not at all otherwise (no SIGINT, or suppress=True), nested or not.
C14_DetainedOnce ==
  det.on => det.calls = det.outside + det.owed

\* two SIGINTs, one of them inside two nested contexts, were delivered once
C14_Witness ==
  /\ det.on
  /\ det.stack = <<>>
  /\ det.inside = 2
  /\ det.deep
  /\ det.outside = 0
  /\ det.calls = 1

\* the nodes of a document: each root and everything below it, with the child
\* indices that lead to it
RECURSIVE NodesUnder(_, _)
NodesUnder(node, path) ==
  {[path |-> path, node |-> node]} \cup
    (IF node.json = "object" /\ "children" \in node.keys
       THEN UNION {NodesUnder(node.children[i], Append(path, i - 1)) :
                     i \in 1..Len(node.children)}
       ELSE {})
DocNodes(doc) ==
  UNION {{[root |-> i, key |-> doc.roots[i].key, path |-> n.path, node |-> n.node] :
            n \in NodesUnder(doc.roots[i].node, <<>>)} : i \in 1..Len(doc.roots)}
UrlNodes(doc) == {n \in DocNodes(doc) : n.node.json = "object" /\ n.node.type = "url"}
PairOf(n) == <<n.node.url, n.node.name>>
FailingNodes(doc) == {n \in DocNodes(doc) : entry_cb(n.node, n.path = <<>>).exc # "ok"}

\* pre-order: roots in document order, a node before its children, children by index
PathBefore(p, q) ==
  /\ p # q
  /\ \/ IsPrefix(p, q)
     \/ \E i \in 1..Len(p) :
          /\ i <= Len(q)
          /\ SubSeq(p, 1, i - 1) = SubSeq(q, 1, i - 1)
          /\ p[i] < q[i]
Before(a, b) == a.root < b.root \/ (a.root = b.root /\ PathBefore(a.path, b.path))

\* a dot and a number for every step down from the root
RECURSIVE Dotted(_)
Dotted(path) ==
  IF path = <<>> THEN ""
  ELSE Dotted(SubSeq(path, 1, Len(path) - 1)) \o "." \o ToString(path[Len(path)])
Location(n) == n.key \o (IF n.path = <<>> THEN "." ELSE Dotted(n.path))

\* the call got as far as the conversion
Converted == bk.on /\ (bk.phase = "done" \/ (bk.phase = "failed" /\ bk.stage = "convert"))

\* C15 as stated: the entries of the record are the (url, name) pairs of the url
\* nodes, and every pair of the record belongs to exactly one url node.
C15_OneNodePerPair ==
  (bk.on /\ bk.phase = "done") =>
    /\ bk.entries = {PairOf(n) : n \in UrlNodes(bk.doc)}
    /\ \A e \in bk.entries : Cardinality({n \in UrlNodes(bk.doc) : PairOf(n) = e}) = 1

\* C15: the entries of the record of an accepted document are exactly the (url, name)
\* pairs of its url nodes, each pair belonging to at least one url node; nodes of
\* another type add nothing.
C15_EntriesAreUrlNodes ==
  (bk.on /\ bk.phase = "done") =>
    /\ \A n \in UrlNodes(bk.doc) : PairOf(n) \in bk.entries
    /\ \A e \in bk.entries : \E n \in UrlNodes(bk.doc) : PairOf(n) = e
    /\ \A n \in DocNodes(bk.doc) \ UrlNodes(bk.doc) : PairOf(n) \notin bk.entries

\* an accepted document with url nodes in the root and in a folder, two of them equal
C15_Witness ==
  /\ bk.on
  /\ bk.phase = "done"
  /\ Cardinality(bk.entries) = 2
  /\ Cardinality(UrlNodes(bk.doc)) = 4
  /\ \E n \in UrlNodes(bk.doc) : Len(n.path) = 2

\* C16: the conversion fails exactly when some node is invalid; it then returns no
\* record and the structural-format error names the first invalid node in pre-order:
\* the root's key, then a dot and the child index for every step down to the node.
C16_FirstFailingNode ==
  Converted =>
    LET F == FailingNodes(bk.doc)
    IN IF F = {} THEN bk.phase = "done"
       ELSE /\ bk.phase = "failed"
            /\ bk.exc = "UnexpectedInputError"
            /\ bk.entries = {}
            /\ \E f \in F : /\ \A g \in F \ {f} : Before(f, g)
                            /\ bk.address = Location(f)

\* the first child of the third child of bookmark_bar fails, and a later node too
C16_Witness ==
  /\ bk.on
  /\ bk.phase = "failed"
  /\ bk.address = "bookmark_bar.2.0"
  /\ \E g \in FailingNodes(bk.doc) : g.key = "other" /\ g.path = <<2>>

\* C17: an accepted document has no node of a type other than url and folder.
C17_UnknownTypeRejected ==
  (bk.on /\ bk.phase = "done") =>
    \A n \in DocNodes(bk.doc) : n.node.type \in {"url", "folder"}

\* a root with a version-4 GUID, a node below a root with a version-5 GUID
WrongGuidVersion(n) ==
  /\ n.node.json = "object"
  /\ "guid" \in n.node.keys
  /\ n.node.guid.var = 8
  /\ IF n.path = <<>> THEN n.node.guid.ver = 4 ELSE n.node.guid.ver = 5

\* C18: a document with a version-4 root GUID or a version-5 GUID below a root is
\* rejected with a structural-format error; when that node is the only invalid one
\* the error names it.
C18_GuidVersions ==
  (Converted /\ \E n \in DocNodes(bk.doc) : WrongGuidVersion(n)) =>
    /\ bk.phase = "failed"
    /\ bk.exc = "UnexpectedInputError"
    /\ \A n \in DocNodes(bk.doc) :
         (WrongGuidVersion(n) /\ \A g \in DocNodes(bk.doc) : WrongGuidVersion(g) => g = n
            /\ FailingNodes(bk.doc) \subseteq {n})
           => bk.address = Location(n)

\* the root other has a version-4 GUID and the error names it
C18_Witness ==
  /\ bk.on
  /\ bk.phase = "failed"
  /\ bk.address = "other."
  /\ \E n \in DocNodes(bk.doc) : n.key = "other" /\ n.path = <<>> /\ WrongGuidVersion(n)

\* C19: a failing load_input_data raises a file-access error or a structural-format
\* error, nothing else.
C19_OnlyTwoErrors ==
  (bk.on /\ bk.phase = "failed") => bk.exc \in {"FileAccessError", "UnexpectedInputError"}

\* C20: a failing Session-Log load_input_data raises a file-access error, a
\* database-access error or a structural-format error, nothing else; every problem of
\* the row or the payload is a structural-format error.
C20_OnlyThreeErrors ==
  (tol.on /\ tol.phase = "failed") =>
    /\ tol.exc \in {"FileAccessError", "DatabaseAccessError", "UnexpectedInputError"}
    /\ tol.stage \in {"precheck", "convert"} => tol.exc = "UnexpectedInputError"

\* the elements strictly between the two sentinels of the payload being loaded
Between == SubSeq(tol.src.data.items, 2, Len(tol.src.data.items) - 1)
Extracted(e) == "type" \notin e.contents.keys \/ e.contents.type = "tab"
PairOfEntry(e) == <<e.contents.data.url, e.contents.data.title>>

\* C21: for an accepted Session-Log input the canonical record holds the (url, title)
\* pair of an element between the sentinels exactly when the element has no type
\* discriminator or the discriminator is tab; win, savedwin and group elements and
\* the two sentinels add nothing.
C21_OnlyTabsContribute ==
  (tol.on /\ tol.phase = "done") =>
    /\ \A i \in 1..Len(Between) : Extracted(Between[i]) => PairOfEntry(Between[i]) \in tol.entries
    /\ \A p \in tol.entries :
         \E i \in 1..Len(Between) : Extracted(Between[i]) /\ PairOfEntry(Between[i]) = p
    /\ \A i \in 1..Len(Between) :
         Between[i].contents.type \in {"win", "savedwin", "group"} =>
           check_input_entry(Between[i]) = "ok"

C21_Witness ==
  /\ tol.on
  /\ tol.phase = "done"
  /\ Len(Between) = 2
  /\ Between[1].contents.type \in {"win", "savedwin", "group"}
  /\ Between[2].contents.type = "tab"
  /\ tol.entries = {PairOfEntry(Between[2])}

PassedPrecheck == tol.on /\ (tol.phase = "done" \/ (tol.phase = "failed" /\ tol.stage = "convert"))
InvalidAt == {i \in 1..Len(Between) : check_input_entry(Between[i]) # "ok"}
FirstInvalid == CHOOSE i \in InvalidAt : \A k \in InvalidAt : i <= k

\* C22: a payload that passed the precheck and holds invalid entries fails with a
\* structural-format error that carries the 1-based position, among the elements
\* between the sentinels, of the first invalid entry; nothing after it is examined
\* and no record is returned.
C22_FirstInvalidEntry ==
  (PassedPrecheck /\ InvalidAt # {}) =>
    /\ tol.phase = "failed"
    /\ tol.exc = "UnexpectedInputError"
    /\ tol.pos = FirstInvalid
    /\ tol.examined = FirstInvalid
    /\ tol.entries = {}

\* the same, for the failures that are reported as structural-format errors
C22_PositionWhenReported ==
  (PassedPrecheck /\ InvalidAt # {}) =>
    /\ tol.phase = "failed"
    /\ tol.examined = FirstInvalid
    /\ tol.entries = {}
    /\ tol.exc = "UnexpectedInputError" => tol.pos = FirstInvalid

KnownTypes == {"win", "savedwin", "tab", "group"}
\* the element whose validation ended the conversion
Failing == Between[tol.examined]
UnknownTypeFails ==
  /\ tol.on
  /\ tol.phase = "failed"
  /\ tol.stage = "convert"
  /\ Failing.json = "array"
  /\ Failing.contents.mapping
  /\ "type" \in Failing.contents.keys
  /\ Failing.contents.type \notin KnownTypes

\* C23: a Session-Log entry whose content mapping has a type discriminator other
\* than win, savedwin, tab or group fails with a structural-format error that reports
\* an unknown type, whatever its data sub-object is or lacks.
C23_UnknownTypeFirst ==
  /\ UnknownTypeFails => tol.exc = "UnexpectedInputError" /\ tol.msg = "unknown type"
  /\ (tol.on /\ tol.phase = "done") =>
       \A i \in 1..Len(Between) :
         "type" \in Between[i].contents.keys => Between[i].contents.type \in KnownTypes

C23_Witness ==
  /\ UnknownTypeFails
  /\ "data" \notin Failing.contents.keys
  /\ tol.examined = 2
  /\ tol.msg = "unknown type"

TypeOfEntry(e) == IF "type" \in e.contents.keys THEN e.contents.type ELSE ""
\* (a), (b) and (c) for the data sub-object of an entry
RequiredPresent(e) == DataRequired(TypeOfEntry(e)) \subseteq e.contents.data.keys
NothingUndeclared(e) ==
  e.contents.data.keys \subseteq DataRequired(TypeOfEntry(e)) \cup DataOptional(TypeOfEntry(e))
PredicatesHold(e) ==
  e.contents.data.mapping /\ e.contents.data.keys \cap e.contents.data.bad = {}
    /\ e.contents.data.adv_ok
\* the entries whose data sub-object was validated, and those it was accepted for
DataValidated ==
  {i \in 1..Len(Between) :
     \/ tol.phase = "done"
     \/ i < tol.examined
     \/ i = tol.examined /\ tol.msg = "data"}
DataAccepted == {i \in DataValidated : tol.phase = "done" \/ i < tol.examined}

\* C24: the data sub-object of a Session-Log entry is accepted exactly when every
\* field required for its discriminator is present, no field outside the required
\* and optional fields of that discriminator is present, and every present field
\* satisfies its predicate.
C24_StructuralValidator ==
  PassedPrecheck =>
    \A i \in DataValidated :
      i \in DataAccepted <=>
        RequiredPresent(Between[i]) /\ NothingUndeclared(Between[i]) /\ PredicatesHold(Between[i])

\* the same without the group discriminator
C24_ValidatorButGroup ==
  PassedPrecheck =>
    \A i \in DataValidated :
      TypeOfEntry(Between[i]) # "group" =>
        (i \in DataAccepted <=>
          RequiredPresent(Between[i]) /\ NothingUndeclared(Between[i])
            /\ PredicatesHold(Between[i]))

\* the conditions of the precheck, on the row and the payload being loaded
LengthDiffers ==
  tol.src.op_array_len.kind # "whole" \/ tol.src.op_array_len.n # Len(tol.src.data.items)
PrecheckConditions ==
  /\ tol.src.id = 1
  /\ tol.src.timestamp.ms >= 0
  /\ tol.src.data.json = "array"
  /\ ~LengthDiffers
  /\ Len(tol.src.data.items) >= 1
  /\ first_sentinel(tol.src.data.items[1]) = "ok"
  /\ last_sentinel(tol.src.data.items[Len(tol.src.data.items)]) = "ok"
  /\ tol.src.data.items[Len(tol.src.data.items)].time.t = "number"
  /\ tol.src.data.items[Len(tol.src.data.items)].time.n < tol.src.timestamp.ms
  /\ tol.src.timestamp.ms - tol.src.data.items[Len(tol.src.data.items)].time.n < 10000

\* C25: a row whose op_array_len differs from the length of the payload array fails
\* in the precheck with no element examined by the per-entry validation, and the
\* per-entry validation only runs after every precheck condition has passed.
C25_PrecheckBeforeEntries ==
  tol.on =>
    /\ (tol.src.data.json = "array" /\ LengthDiffers) =>
         /\ tol.phase \notin {"prechecked", "done"}
         /\ tol.examined = 0
         /\ (tol.phase = "failed" /\ tol.stage # "load") => tol.stage = "precheck"
    /\ (tol.examined > 0 \/ tol.phase \in {"prechecked", "done"} \/ tol.stage = "convert")
         => PrecheckConditions

C25_Witness ==
  /\ tol.on
  /\ tol.phase = "failed"
  /\ tol.stage = "precheck"
  /\ tol.exc = "UnexpectedInputError"
  /\ tol.src.op_array_len.kind = "whole"
  /\ tol.src.op_array_len.n > Len(tol.src.data.items)
  /\ Len(tol.src.data.items) = 3
  /\ tol.examined = 0

\* the four fields of the row in their order, and those whose value has another type
\* than float, float, float, str
FieldOrder == <<"id", "timestamp", "op_array_len", "data">>
FieldAt(f) == CHOOSE i \in 1..Len(FieldOrder) : FieldOrder[i] = f
Mismatching ==
  {f \in {"id", "timestamp", "op_array_len"} : tol.src.types[f] # "float"}
    \cup {f \in {"data"} : tol.src.types[f] # "str"}
RowOfFourRead == tol.src.file = "ok" /\ tol.src.rows = 1 /\ tol.src.cols = 4

\* C26: a single source row with type mismatches in several of its four fields gives
\* one structural-format error with one fragment for every mismatching field, in field
\* order, and none for a correctly typed field.
C26_AllMismatchesReported ==
  (tol.on /\ tol.phase # "start" /\ RowOfFourRead /\ Mismatching # {}) =>
    /\ tol.phase = "failed"
    /\ tol.stage = "load"
    /\ tol.exc = "UnexpectedInputError"
    /\ {tol.fragments[i] : i \in 1..Len(tol.fragments)} = Mismatching
    /\ Len(tol.fragments) = Cardinality(Mismatching)
    /\ \A i, k \in 1..Len(tol.fragments) :
         i < k => FieldAt(tol.fragments[i]) < FieldAt(tol.fragments[k])

C26_Witness ==
  /\ tol.on
  /\ tol.phase = "failed"
  /\ tol.stage = "load"
  /\ tol.fragments = <<"id", "op_array_len", "data">>
  /\ tol.src.types["timestamp"] = "float"

\* the precheck ended at a first sentinel that is right but for its treeId, which
\* float() does not convert
TreeIdNotConverted ==
  /\ tol.on
  /\ tol.phase = "failed"
  /\ tol.stage = "precheck"
  /\ ~LengthDiffers
  /\ Len(tol.src.data.items) >= 1
  /\ tol.src.data.items[1].json = "object"
  /\ tol.src.data.items[1].code = 2000
  /\ tol.src.data.items[1].node.data.mapping
  /\ float_raises(tol.src.data.items[1].node.data.treeId) # "none"

\* C27: silence_exc lets no exception of a listed type escape, it returns the
\* exception instead; so a first sentinel whose treeId cannot be converted to a number
\* makes the Session-Log precheck fail with a structural-format error.
C27_ListedExceptionsSilenced ==
  TreeIdNotConverted =>
    LET raises == float_raises(tol.src.data.items[1].node.data.treeId)
    IN /\ silence_exc(raises, {"TypeError", "ValueError"}).escapes = "none"
       /\ silence_exc(raises, {"TypeError", "ValueError"}).raised = raises
       /\ tol.exc = "UnexpectedInputError"

\* a file that is there without the whole schema and both header values
SchemaIncomplete(d) ==
  d.kind = "db" /\ ~(d.tables = {"extra", "collections", "entries"} /\ HeaderOk(d))

\* C28 as stated: the schema is created only when the destination file was absent at
\* the start of the invocation; after a run on a fresh path that left the file without
\* the committed schema and headers, every later run enters verifying and fails.
C28_LaterRunsVerifyAndFail ==
  /\ "db_building" \in Range(hist.stages) => hist.pre.kind = "none" /\ db_created
  /\ (hist.fresh /\ runs >= 2 /\ SchemaIncomplete(hist.pre) /\ pc \in Terminal) =>
       /\ "db_verifying" \in Range(hist.stages)
       /\ pc = "raised"
       /\ hist.failedIn = "db_verifying"

\* C28: the schema is created only when the destination file was absent at the start
\* of the invocation, an existing file is never built again; so after a run on a
\* fresh path that left the file without the committed schema and headers, a later
\* run never builds or fills, leaves the file as it is, goes to verifying when it
\* gets past connecting and fails there.
C28_BuiltOnlyWhenAbsent ==
  /\ "db_building" \in Range(hist.stages) => hist.pre.kind = "none" /\ db_created
  /\ (hist.fresh /\ runs >= 2 /\ SchemaIncomplete(hist.pre)) =>
       /\ file = hist.pre
       /\ pc # "done"
       /\ "db_building" \notin Range(hist.stages)
       /\ "db_filling" \notin Range(hist.stages)
       /\ Len(hist.stages) >= 2 => hist.stages[2] = "db_verifying"
       /\ ("db_verifying" \in Range(hist.stages) /\ pc \in Terminal)
            => (pc = "raised" /\ hist.failedIn = "db_verifying")

C28_Witness ==
  /\ runs = 2
  /\ hist.fresh
  /\ hist.pre = EmptyDb
  /\ pc = "raised"
  /\ hist.stages = <<"db_connecting", "db_verifying">>
  /\ hist.failedIn = "db_verifying"
  /\ exc.type = "DatabaseAccessError"

\* store_output_data has not run and the destination is as it was
StoreNeverRan == pc = "start" /\ hist.stages = <<>> /\ db_con = Unbound /\ file = hist.pre

\* C29: main calls store_output_data only after the loader returned a record; when
\* the loader fails with a file-access, database-access or structural-format error,
\* the storage engine never runs, the destination is neither created nor changed,
\* and main returns the exit code of that error: 2, 5 or 22.
C29_LoaderFailureExitCode ==
  mn.on =>
    /\ ~StoreNeverRan => mn.loaded = "ok"
    /\ mn.loaded \in {"FileAccessError", "DatabaseAccessError", "UnexpectedInputError"} =>
         /\ StoreNeverRan
         /\ mn.pc = "returned"
         /\ mn.code = CASE mn.loaded = "FileAccessError" -> 2
                        [] mn.loaded = "DatabaseAccessError" -> 5
                        [] OTHER -> 22

\* the same for the runs that were not asked for verbose errors
C29_WithoutVerboseErrors ==
  (mn.on /\ ~mn.verbose_errors) =>
    /\ ~StoreNeverRan => mn.loaded = "ok"
    /\ mn.loaded \in {"FileAccessError", "DatabaseAccessError", "UnexpectedInputError"} =>
         /\ StoreNeverRan
         /\ mn.pc = "returned"
         /\ mn.code = CASE mn.loaded = "FileAccessError" -> 2
                        [] mn.loaded = "DatabaseAccessError" -> 5
                        [] OTHER -> 22

\* C30: when store_output_data returns or raises to its caller, every DetainSigint
\* and ProcessSigintAsInterruption region has been left and the SIGINT handler is the
\* one that was installed when it was called, whatever SIGINTs arrived and whatever
\* was answered at the prompt.
C30_HandlerRestored ==
  pc \in {"done", "raised"} => handler = "default_int_handler" /\ ctx = <<>> /\ tries = 0

C30_Witness ==
  /\ pc = "done"
  /\ hist.sigIn # {}
  /\ hist.answered # "none"
  /\ handler = "default_int_handler"

====
